---- MODULE Spec2Model ----
(***************************************************************************)
(* Model of the line diff engine of shutter (internal/diff/diff.go):       *)
(* the line splitter, the sequence matcher (chainB, findLongestMatch,      *)
(* getMatchingBlocks), the opcode generator (getOpCodes) and the diff line *)
(* builder (Histogram); of the snapshot files (Serialize, Deserialize,      *)
(* SaveSnapshot, ReadSnapshot, AcceptSnapshot, RejectSnapshot) with the     *)
(* Snap call that compares against them; and of TransformJSON.              *)
(*                                                                         *)
(* A text is a sequence of one-character strings; a line is a sequence of  *)
(* characters without the line feed.  Indices into a and b are 0-based as  *)
(* in the source: element i of a sequence s is s[i + 1].                   *)
(***************************************************************************)
EXTENDS Integers, Sequences, FiniteSets, TLC

\* ------------------------------------------------------------------ bounds

\* Longest short input text, in characters.
MaxLen == 6

\* Longest input of TransformJSON, in characters.
MaxJSONLen == 4

\* ------------------------------------------------------- program constants

DiffShared == 0
DiffOld == 1
DiffNew == 2

opEqual == 0
opInsert == 1
opDelete == 2
opReplace == 3

\* chainB: the auto-junk heuristic starts at this many lines of b.
AutoJunkMin == 200

\* chainB: ntest == n / AutoJunkDiv + 1.
AutoJunkDiv == 100

\* newMatcher: sequenceMatcher{autoJunk: true}; IsJunk stays nil.
autoJunk == TRUE

LF == "\n"

Chars == {"a", LF}

\* ----------------------------------------------------------------- inputs

TextsUpTo(n) == UNION {[1..k -> Chars] : k \in 0..n}

\* Texts of at least AutoJunkMin lines: AutoJunkMin line feeds (so the empty
\* line is popular) with a short head and a short tail (lines that are not).
Edges == {<<>>, <<"a">>, <<LF>>, <<"a", LF>>}

LongTexts == {h \o [i \in 1..AutoJunkMin |-> LF] \o t : h \in Edges, t \in Edges}

ShortTexts == TextsUpTo(MaxLen)

VARIABLES old, new, pc, a, b, b2j, bJunk, bPopular, matchingBlocks, opCodes, result

\* The activations of matchBlocks (the innermost last) and the list they
\* append to, for the specification that runs getMatchingBlocks call by call.
VARIABLES stack, matchedList

\* The snapshot codec: a snapshot, its serialized form, the parse of that.
VARIABLES snapshot, raw, parsed

\* The snapshot store: the files of the snapshot directory by name, the last
\* operation on it, the files before that operation, what the operation
\* reported (the t.Error messages of a Snap, the error of an Accept or
\* Reject), and the files as the last AcceptSnapshot left them.
VARIABLES files, call, prev, errors, baseline

\* TransformJSON: its two arguments and what it returned.
VARIABLES jsonStr, config, transformed

\* The edit-distance variant of Histogram: the cost matrix, the cell (i, j)
\* the traceback stands at and the cell its last step was taken from.
VARIABLES matrix, cell, last

\* The interactive review.  ui is the program that runs it (the reviewLoop of
\* the command line or the model of the terminal interface), snapshots the
\* names ListNewSnapshots returned, current the (0-based) index of the
\* snapshot shown; done, err and the three counters are the fields of the
\* terminal model; pressed is the history of the choices made, each with the
\* index it was made at.
VARIABLES ui, snapshots, current, done, err, acceptedAll, rejectedAll, skippedAll, pressed

diffVars == <<old, new, pc, a, b, b2j, bJunk, bPopular, matchingBlocks, opCodes, result>>
callVars == <<stack, matchedList>>
codecVars == <<snapshot, raw, parsed>>
storeVars == <<files, call, prev, errors, baseline>>
jsonVars == <<jsonStr, config, transformed>>
dpVars == <<matrix, cell, last>>
reviewVars == <<ui, snapshots, current, done, err, acceptedAll, rejectedAll, skippedAll, pressed>>

vars == <<diffVars, callVars, codecVars, storeVars, jsonVars, dpVars, reviewVars>>

\* The parts of the state a specification does not use stay as they are here.
IdleDiff ==
    /\ old = <<>> /\ new = <<>> /\ pc = "idle"
    /\ a = <<>> /\ b = <<>> /\ b2j = <<>> /\ bJunk = {} /\ bPopular = {}
    /\ matchingBlocks = <<>> /\ opCodes = <<>> /\ result = <<>>

IdleCalls == stack = <<>> /\ matchedList = <<>>

IdleCodec == snapshot = <<>> /\ raw = <<>> /\ parsed = <<>>

IdleStore ==
    files = <<>> /\ call = <<>> /\ prev = <<>> /\ errors = <<>> /\ baseline = <<>>

IdleJSON == jsonStr = <<>> /\ config = <<>> /\ transformed = <<>>

IdleDP == matrix = <<>> /\ cell = <<>> /\ last = <<>>

IdleReview ==
    /\ ui = "none" /\ snapshots = <<>> /\ current = 0 /\ done = FALSE /\ err = ""
    /\ acceptedAll = 0 /\ rejectedAll = 0 /\ skippedAll = 0 /\ pressed = <<>>

\* ---------------------------------------------------------- line splitter

\* splitStep with a fault: a line feed ends a line only when the line is not
\* empty.
splitStepSkipEmpty(s, i, st) ==
    IF s[i + 1] = LF
    THEN [lines |-> IF st.current # <<>> THEN Append(st.lines, st.current)
                    ELSE st.lines,
          current |-> <<>>]
    ELSE [lines |-> st.lines, current |-> Append(st.current, s[i + 1])]

\* One character of the loop of splitLinesKeepNewline.
splitStep(s, i, st) ==
    IF s[i + 1] = LF
    THEN [lines |-> Append(st.lines, st.current), current |-> <<>>]
    ELSE [lines |-> st.lines, current |-> Append(st.current, s[i + 1])]

\* The loop over the characters lo .. hi - 1 of s.  The iterations run in
\* order, each on the state the one before it left; the range is halved only
\* to keep the depth of evaluation logarithmic in hi - lo (a text has 200
\* characters and more), and the comparison makes TLC evaluate the first half
\* before it starts the second.  The other loops over lines are written alike.
RECURSIVE splitLoop(_, _, _, _)
splitLoop(s, lo, hi, st) ==
    IF lo >= hi THEN st
    ELSE IF hi = lo + 1 THEN splitStep(s, lo, st)
    ELSE LET mid == (lo + hi) \div 2
             half == splitLoop(s, lo, mid, st)
         IN  IF half = half THEN splitLoop(s, mid, hi, half) ELSE half

splitLinesKeepNewline(s) ==
    LET st == splitLoop(s, 0, Len(s), [lines |-> <<>>, current |-> <<>>])
    IN  IF st.current # <<>> THEN Append(st.lines, st.current) ELSE st.lines

\* splitLines with a fault: the empty string gives one empty line.
splitLinesOneEmptyLine(s) ==
    IF s = <<>> THEN << <<>> >> ELSE splitLinesKeepNewline(s)

splitLines(s) == IF s = <<>> THEN <<>> ELSE splitLinesKeepNewline(s)

\* ----------------------------------------------------------------- chainB

Range(s) == {s[i] : i \in DOMAIN s}

\* The ascending list of the (0-based) positions of elt in seq.
Positions(seq, elt) ==
    LET idx == [i \in 1..Len(seq) |-> i - 1]
    IN  SelectSeq(idx, LAMBDA j : seq[j + 1] = elt)

fullIndex(seq) == [elt \in Range(seq) |-> Positions(seq, elt)]

popularOf(seq) ==
    LET n == Len(seq)
        ntest == (n \div AutoJunkDiv) + 1
        full == fullIndex(seq)
    IN  IF autoJunk /\ n >= AutoJunkMin
        THEN {s \in DOMAIN full : Len(full[s]) > ntest}
        ELSE {}

chainB(seq) ==
    LET full == fullIndex(seq)
        popular == popularOf(seq)
    IN  [b2j |-> [s \in (DOMAIN full) \ popular |-> full[s]],
         bJunk |-> {},
         bPopular |-> popular]

isBJunk(s) == s \in bJunk

\* ------------------------------------------------------- findLongestMatch

\* j2len[j], 0 when the map has no key j.
Get(m, j) == IF j \in DOMAIN m THEN m[j] ELSE 0

Put(m, j, k) == [x \in (DOMAIN m) \cup {j} |-> IF x = j THEN k ELSE m[x]]

\* The candidate positions of the line a[i] in b (nil for a line not in b2j).
candidates(i) == IF a[i + 1] \in DOMAIN b2j THEN b2j[a[i + 1]] ELSE <<>>

\* innerLoop with a fault: k >= bestsize, so the last of the longest runs wins.
RECURSIVE innerLoopLastWins(_, _, _, _, _, _, _)
innerLoopLastWins(js, n, i, blo, bhi, j2len, st) ==
    IF n > Len(js) THEN st
    ELSE LET j == js[n]
         IN  IF j < blo THEN innerLoopLastWins(js, n + 1, i, blo, bhi, j2len, st)
             ELSE IF j >= bhi THEN st
             ELSE LET k == Get(j2len, j - 1) + 1
                      nj == Put(st.newj2len, j, k)
                  IN  IF k >= st.bestsize
                      THEN innerLoopLastWins(js, n + 1, i, blo, bhi, j2len,
                               [newj2len |-> nj, besti |-> i - k + 1,
                                bestj |-> j - k + 1, bestsize |-> k])
                      ELSE innerLoopLastWins(js, n + 1, i, blo, bhi, j2len,
                               [st EXCEPT !.newj2len = nj])

\* The loop over m.b2j[m.a[i]]: st is [newj2len, besti, bestj, bestsize].
RECURSIVE innerLoop(_, _, _, _, _, _, _)
innerLoop(js, n, i, blo, bhi, j2len, st) ==
    IF n > Len(js) THEN st
    ELSE LET j == js[n]
         IN  IF j < blo THEN innerLoop(js, n + 1, i, blo, bhi, j2len, st)
             ELSE IF j >= bhi THEN st
             ELSE LET k == Get(j2len, j - 1) + 1
                      nj == Put(st.newj2len, j, k)
                  IN  IF k > st.bestsize
                      THEN innerLoop(js, n + 1, i, blo, bhi, j2len,
                               [newj2len |-> nj, besti |-> i - k + 1,
                                bestj |-> j - k + 1, bestsize |-> k])
                      ELSE innerLoop(js, n + 1, i, blo, bhi, j2len,
                               [st EXCEPT !.newj2len = nj])

\* One iteration of the loop over i: st is [j2len, besti, bestj, bestsize].
outerStep(i, blo, bhi, st) ==
    LET r == innerLoop(candidates(i), 1, i, blo, bhi, st.j2len,
                 [newj2len |-> <<>>, besti |-> st.besti, bestj |-> st.bestj,
                  bestsize |-> st.bestsize])
    IN  [j2len |-> r.newj2len, besti |-> r.besti, bestj |-> r.bestj,
         bestsize |-> r.bestsize]

\* The loop over i = lo .. hi - 1 (alo <= ahi in every call, so i != ahi is
\* i < ahi).
RECURSIVE outerLoop(_, _, _, _, _)
outerLoop(lo, hi, blo, bhi, st) ==
    IF lo >= hi THEN st
    ELSE IF hi = lo + 1 THEN outerStep(lo, blo, bhi, st)
    ELSE LET mid == (lo + hi) \div 2
             half == outerLoop(lo, mid, blo, bhi, st)
         IN  IF half = half THEN outerLoop(mid, hi, blo, bhi, half) ELSE half

\* The two loops that grow the block to the left: through non-junk lines
\* (junk = FALSE), then through junk lines (junk = TRUE).
canExtendBack(best, alo, blo, junk) ==
    /\ best.besti > alo
    /\ best.bestj > blo
    /\ isBJunk(b[best.bestj]) = junk
    /\ a[best.besti] = b[best.bestj]

\* n iterations at most of the loop; it stops when its condition fails.
RECURSIVE extendBackLoop(_, _, _, _, _)
extendBackLoop(n, best, alo, blo, junk) ==
    IF n <= 0 THEN best
    ELSE IF n = 1
         THEN IF canExtendBack(best, alo, blo, junk)
              THEN [best EXCEPT !.besti = @ - 1, !.bestj = @ - 1,
                                !.bestsize = @ + 1]
              ELSE best
    ELSE LET half == extendBackLoop(n \div 2, best, alo, blo, junk)
         IN  IF half = half
             THEN extendBackLoop(n - (n \div 2), half, alo, blo, junk)
             ELSE half

\* besti > alo holds before each iteration: besti - alo iterations at most.
extendBack(best, alo, blo, junk) ==
    extendBackLoop(best.besti - alo, best, alo, blo, junk)

\* The two loops that grow the block to the right.
\* canExtendForward with a fault: the two lines are not compared.
canExtendForwardNoCompare(best, ahi, bhi, junk) ==
    /\ best.besti + best.bestsize < ahi
    /\ best.bestj + best.bestsize < bhi
    /\ isBJunk(b[best.bestj + best.bestsize + 1]) = junk

canExtendForward(best, ahi, bhi, junk) ==
    /\ best.besti + best.bestsize < ahi
    /\ best.bestj + best.bestsize < bhi
    /\ isBJunk(b[best.bestj + best.bestsize + 1]) = junk
    /\ a[best.besti + best.bestsize + 1] = b[best.bestj + best.bestsize + 1]

\* extendForward with a fault: the block is never grown to the right.
extendForwardNone(best, ahi, bhi, junk) == best

RECURSIVE extendForwardLoop(_, _, _, _, _)
extendForwardLoop(n, best, ahi, bhi, junk) ==
    IF n <= 0 THEN best
    ELSE IF n = 1
         THEN IF canExtendForward(best, ahi, bhi, junk)
              THEN [best EXCEPT !.bestsize = @ + 1]
              ELSE best
    ELSE LET half == extendForwardLoop(n \div 2, best, ahi, bhi, junk)
         IN  IF half = half
             THEN extendForwardLoop(n - (n \div 2), half, ahi, bhi, junk)
             ELSE half

\* besti + bestsize < ahi holds before each iteration.
extendForward(best, ahi, bhi, junk) ==
    extendForwardLoop(ahi - (best.besti + best.bestsize), best, ahi, bhi, junk)

asMatch(best) == [A |-> best.besti, B |-> best.bestj, Size |-> best.bestsize]

\* The longest junk-free run found by the loop over i.
longestRun(alo, ahi, blo, bhi) ==
    outerLoop(alo, ahi, blo, bhi,
              [j2len |-> <<>>, besti |-> alo, bestj |-> blo, bestsize |-> 0])

\* The run, then the four loops in the order of the source: back and forward
\* through non-junk lines, back and forward through junk lines.
findLongestMatch(alo, ahi, blo, bhi) ==
    asMatch(
        extendForward(
            extendBack(
                extendForward(
                    extendBack(longestRun(alo, ahi, blo, bhi), alo, blo, FALSE),
                    ahi, bhi, FALSE),
                alo, blo, TRUE),
            ahi, bhi, TRUE))

\* ------------------------------------------------------ getMatchingBlocks

RECURSIVE matchBlocks(_, _, _, _, _)

\* The recursion into the range before the match (lines 296 to 298).
matchLeft(match, alo, blo, matched) ==
    IF alo < match.A /\ blo < match.B
    THEN matchBlocks(alo, match.A, blo, match.B, matched)
    ELSE matched

\* matchRight with a fault: the recursion to the right of the match starts at
\* blo, not after the match in b.
matchRightFromBlo(match, ahi, blo, bhi, matched) ==
    IF match.A + match.Size < ahi /\ match.B + match.Size < bhi
    THEN matchBlocks(match.A + match.Size, ahi, blo, bhi, matched)
    ELSE matched

\* matchRight with a fault: no recursion to the right of the match.
matchRightNone(match, ahi, blo, bhi, matched) == matched

\* The recursion into the range after the match (lines 300 to 302).
matchRight(match, ahi, blo, bhi, matched) ==
    IF match.A + match.Size < ahi /\ match.B + match.Size < bhi
    THEN matchBlocks(match.A + match.Size, ahi, match.B + match.Size, bhi, matched)
    ELSE matched

\* The body of matchBlocks once the longest match of the range is known.
matchAround(match, alo, ahi, blo, bhi, matched) ==
    IF match.Size > 0
    THEN matchRight(match, ahi, blo, bhi,
                    Append(matchLeft(match, alo, blo, matched), match))
    ELSE matched

matchBlocks(alo, ahi, blo, bhi, matched) ==
    matchAround(findLongestMatch(alo, ahi, blo, bhi), alo, ahi, blo, bhi, matched)

\* The loop that collapses adjacent blocks: cur is the block (i1, j1, k1).
RECURSIVE collapse(_, _, _, _)
collapse(matched, n, cur, nonAdjacent) ==
    IF n > Len(matched)
    THEN IF cur.Size > 0 THEN Append(nonAdjacent, cur) ELSE nonAdjacent
    ELSE LET blk == matched[n]
         IN  IF cur.A + cur.Size = blk.A /\ cur.B + cur.Size = blk.B
             THEN collapse(matched, n + 1, [cur EXCEPT !.Size = @ + blk.Size],
                           nonAdjacent)
             ELSE collapse(matched, n + 1, blk,
                           IF cur.Size > 0 THEN Append(nonAdjacent, cur)
                                           ELSE nonAdjacent)

getMatchingBlocks ==
    LET matched == matchBlocks(0, Len(a), 0, Len(b), <<>>)
        nonAdjacent == collapse(matched, 1, [A |-> 0, B |-> 0, Size |-> 0], <<>>)
    IN  Append(nonAdjacent, [A |-> Len(a), B |-> Len(b), Size |-> 0])

\* ------------------------------------------------------------- getOpCodes

\* tagOf with a fault: a gap in a alone gets no tag.
tagOfNoDelete(i, j, ai, bj) ==
    IF i < ai /\ j < bj THEN opReplace
    ELSE IF j < bj THEN opInsert
    ELSE 0

tagOf(i, j, ai, bj) ==
    IF i < ai /\ j < bj THEN opReplace
    ELSE IF i < ai THEN opDelete
    ELSE IF j < bj THEN opInsert
    ELSE 0

RECURSIVE opCodeLoop(_, _, _, _, _)
opCodeLoop(matching, n, i, j, codes) ==
    IF n > Len(matching) THEN codes
    ELSE LET m == matching[n]
             tag == tagOf(i, j, m.A, m.B)
             c1 == IF tag > 0
                   THEN Append(codes, [Tag |-> tag, I1 |-> i, I2 |-> m.A,
                                       J1 |-> j, J2 |-> m.B])
                   ELSE codes
             i2 == m.A + m.Size
             j2 == m.B + m.Size
             c2 == IF m.Size > 0
                   THEN Append(c1, [Tag |-> opEqual, I1 |-> m.A, I2 |-> i2,
                                    J1 |-> m.B, J2 |-> j2])
                   ELSE c1
         IN  opCodeLoop(matching, n + 1, i2, j2, c2)

getOpCodes(matching) == opCodeLoop(matching, 1, 0, 0, <<>>)

\* -------------------------------------------------------------- Histogram

sharedLines(op) ==
    [x \in 1..(op.I2 - op.I1) |->
        LET i == op.I1 + x - 1
            newIdx == i + (op.J1 - op.I1)
        IN  [Line |-> a[i + 1], Kind |-> DiffShared,
             OldNumber |-> i + 1, NewNumber |-> newIdx + 1]]

oldLinesOf(op) ==
    [x \in 1..(op.I2 - op.I1) |->
        LET i == op.I1 + x - 1
        IN  [Line |-> a[i + 1], Kind |-> DiffOld, OldNumber |-> i + 1, NewNumber |-> 0]]

newLinesOf(op) ==
    [x \in 1..(op.J2 - op.J1) |->
        LET j == op.J1 + x - 1
        IN  [Line |-> b[j + 1], Kind |-> DiffNew, OldNumber |-> 0, NewNumber |-> j + 1]]

\* linesOf with a fault: a Replace opcode emits its old lines only.
linesOfDropAdded(op) ==
    IF op.Tag = opEqual THEN sharedLines(op)
    ELSE IF op.Tag = opDelete THEN oldLinesOf(op)
    ELSE IF op.Tag = opInsert THEN newLinesOf(op)
    ELSE IF op.Tag = opReplace THEN oldLinesOf(op)
    ELSE <<>>

\* linesOf with a fault: a Replace opcode emits its new lines first.
linesOfAddedFirst(op) ==
    IF op.Tag = opEqual THEN sharedLines(op)
    ELSE IF op.Tag = opDelete THEN oldLinesOf(op)
    ELSE IF op.Tag = opInsert THEN newLinesOf(op)
    ELSE IF op.Tag = opReplace THEN newLinesOf(op) \o oldLinesOf(op)
    ELSE <<>>

linesOf(op) ==
    IF op.Tag = opEqual THEN sharedLines(op)
    ELSE IF op.Tag = opDelete THEN oldLinesOf(op)
    ELSE IF op.Tag = opInsert THEN newLinesOf(op)
    ELSE IF op.Tag = opReplace THEN oldLinesOf(op) \o newLinesOf(op)
    ELSE <<>>

RECURSIVE emitLoop(_, _, _)
emitLoop(opcodes, n, res) ==
    IF n > Len(opcodes) THEN res
    ELSE emitLoop(opcodes, n + 1, res \o linesOf(opcodes[n]))

\* ---------------------------------------------------------- state machine

Init ==
    /\ \/ old \in ShortTexts /\ new \in ShortTexts
       \/ old \in LongTexts /\ new \in LongTexts
       \/ old \in Edges /\ new \in LongTexts
       \/ old \in LongTexts /\ new \in Edges
    /\ pc = "start"
    /\ a = <<>>
    /\ b = <<>>
    /\ b2j = <<>>
    /\ bJunk = {}
    /\ bPopular = {}
    /\ matchingBlocks = <<>>
    /\ opCodes = <<>>
    /\ result = <<>>
    /\ IdleCalls /\ IdleCodec /\ IdleStore /\ IdleJSON /\ IdleDP /\ IdleReview

\* Histogram, lines 363-366: split both texts and build the matcher.
NewMatcher ==
    /\ pc = "start"
    /\ a' = splitLines(old)
    /\ b' = splitLines(new)
    /\ b2j' = chainB(b').b2j
    /\ bJunk' = chainB(b').bJunk
    /\ bPopular' = chainB(b').bPopular
    /\ pc' = "matcher"
    /\ UNCHANGED <<old, new, matchingBlocks, opCodes, result>>
    /\ UNCHANGED <<callVars, codecVars, storeVars, jsonVars, dpVars, reviewVars>>

\* Histogram, line 367: matcher.getOpCodes(), which calls getMatchingBlocks.
GetOpCodes ==
    /\ pc = "matcher"
    /\ matchingBlocks' = getMatchingBlocks
    /\ opCodes' = getOpCodes(matchingBlocks')
    /\ pc' = "opcodes"
    /\ UNCHANGED <<old, new, a, b, b2j, bJunk, bPopular, result>>
    /\ UNCHANGED <<callVars, codecVars, storeVars, jsonVars, dpVars, reviewVars>>

\* Histogram, lines 369-417: one pass over the opcodes.
Emit ==
    /\ pc = "opcodes"
    /\ result' = emitLoop(opCodes, 1, <<>>)
    /\ pc' = "done"
    /\ UNCHANGED <<old, new, a, b, b2j, bJunk, bPopular, matchingBlocks, opCodes>>
    /\ UNCHANGED <<callVars, codecVars, storeVars, jsonVars, dpVars, reviewVars>>

Next == NewMatcher \/ GetOpCodes \/ Emit

Spec == Init /\ [][Next]_vars

\* ---------------------------------------- getMatchingBlocks, call by call

\* An activation of matchBlocks(alo, ahi, blo, bhi).  At "enter" it has yet
\* to call findLongestMatch; at "append" its match is found and its left call
\* (if any) is made; at "return" its match is appended and its right call (if
\* any) is made.
frame(alo, ahi, blo, bhi) ==
    [alo |-> alo, ahi |-> ahi, blo |-> blo, bhi |-> bhi,
     at |-> "enter", match |-> [A |-> 0, B |-> 0, Size |-> 0]]

top == stack[Len(stack)]

below == SubSeq(stack, 1, Len(stack) - 1)

\* matchBlocks(alo, i, blo, j), line 297.
leftCall(match, alo, blo) == frame(alo, match.A, blo, match.B)

\* rightCall with a fault: the right call starts at the match, not after it.
rightCallFromMatch(match, ahi, bhi) == frame(match.A, ahi, match.B, bhi)

\* matchBlocks(i+k, ahi, j+k, bhi), line 301.
rightCall(match, ahi, bhi) ==
    frame(match.A + match.Size, ahi, match.B + match.Size, bhi)

\* getMatchingBlocks, line 306: matched = matchBlocks(0, len(a), 0, len(b), nil).
CallGetMatchingBlocks ==
    /\ pc = "matcher"
    /\ stack' = <<frame(0, Len(a), 0, Len(b))>>
    /\ matchedList' = <<>>
    /\ pc' = "blocks"
    /\ UNCHANGED <<old, new, a, b, b2j, bJunk, bPopular, matchingBlocks, opCodes, result>>
    /\ UNCHANGED <<codecVars, storeVars, jsonVars, dpVars, reviewVars>>

\* The activation a match of size 0 leaves: it returns; any other goes on to
\* its left call when the match has lines of both sequences before it.
afterMatch(f, match) ==
    IF match.Size = 0 THEN below
    ELSE IF f.alo < match.A /\ f.blo < match.B
    THEN below \o <<[f EXCEPT !.at = "append", !.match = match],
                    leftCall(match, f.alo, f.blo)>>
    ELSE below \o <<[f EXCEPT !.at = "append", !.match = match]>>

\* matchBlocks, lines 293-298: findLongestMatch, then the left call.
EnterMatchBlocks ==
    /\ pc = "blocks"
    /\ stack # <<>>
    /\ top.at = "enter"
    /\ stack' = afterMatch(top, findLongestMatch(top.alo, top.ahi, top.blo, top.bhi))
    /\ UNCHANGED <<diffVars, matchedList, codecVars, storeVars, jsonVars, dpVars, reviewVars>>

\* matchBlocks, lines 299-302: append the match, then the right call.
AppendMatch ==
    /\ pc = "blocks"
    /\ stack # <<>>
    /\ top.at = "append"
    /\ matchedList' = Append(matchedList, top.match)
    /\ stack' = IF /\ top.match.A + top.match.Size < top.ahi
                   /\ top.match.B + top.match.Size < top.bhi
                THEN below \o <<[top EXCEPT !.at = "return"],
                                rightCall(top.match, top.ahi, top.bhi)>>
                ELSE below \o <<[top EXCEPT !.at = "return"]>>
    /\ UNCHANGED <<diffVars, codecVars, storeVars, jsonVars, dpVars, reviewVars>>

\* matchBlocks, line 304: return matched.
ReturnMatchBlocks ==
    /\ pc = "blocks"
    /\ stack # <<>>
    /\ top.at = "return"
    /\ stack' = below
    /\ UNCHANGED <<diffVars, matchedList, codecVars, storeVars, jsonVars, dpVars, reviewVars>>

\* getMatchingBlocks, lines 308-328, and the rest of getOpCodes (332-359).
CollapseBlocks ==
    /\ pc = "blocks"
    /\ stack = <<>>
    /\ matchingBlocks' =
          Append(collapse(matchedList, 1, [A |-> 0, B |-> 0, Size |-> 0], <<>>),
                 [A |-> Len(a), B |-> Len(b), Size |-> 0])
    /\ opCodes' = getOpCodes(matchingBlocks')
    /\ pc' = "opcodes"
    /\ UNCHANGED <<old, new, a, b, b2j, bJunk, bPopular, result>>
    /\ UNCHANGED <<callVars, codecVars, storeVars, jsonVars, dpVars, reviewVars>>

NextCalls ==
    \/ NewMatcher
    \/ CallGetMatchingBlocks
    \/ EnterMatchBlocks
    \/ AppendMatch
    \/ ReturnMatchBlocks
    \/ CollapseBlocks
    \/ Emit

SpecCalls == Init /\ [][NextCalls]_vars

\* ------------------------------------------ chainB, in map iteration order

\* Texts of AutoJunkMin lines or more with two popular lines, "a" and the
\* empty line in turn, and a short head and tail.
PopularTexts ==
    {h \o [i \in 1..(3 * AutoJunkDiv) |-> IF i % 3 = 1 THEN "a" ELSE LF] \o t :
        h \in Edges, t \in Edges}

\* The orders in which a range loop may visit the keys of a map: Go leaves
\* the iteration order of a map unspecified.
Orders(keys) ==
    {o \in [1..Cardinality(keys) -> keys] : \A k \in keys : \E i \in DOMAIN o : o[i] = k}

\* markPopular with a fault: the loop stops at the first popular line.
markPopularFirstOnly(s, indices, ntest, popular) ==
    IF Len(indices) > ntest /\ popular = {} THEN popular \cup {s} ELSE popular

\* markPopular with a fault: a line that occurs exactly ntest times is
\* popular too.
markPopularAtThreshold(s, indices, ntest, popular) ==
    IF Len(indices) >= ntest THEN popular \cup {s} ELSE popular

\* chainB, lines 219-221: one iteration of the loop over b2j.
markPopular(s, indices, ntest, popular) ==
    IF Len(indices) > ntest THEN popular \cup {s} ELSE popular

RECURSIVE markLoop(_, _, _, _, _)
markLoop(order, n, index, ntest, popular) ==
    IF n > Len(order) THEN popular
    ELSE markLoop(order, n + 1, index, ntest,
                  markPopular(order[n], index[order[n]], ntest, popular))

\* delete(b2j, s)
Delete(m, s) == [x \in (DOMAIN m) \ {s} |-> m[x]]

\* chainB, lines 223-225: the loop over popular.
RECURSIVE deleteLoop(_, _, _)
deleteLoop(order, n, index) ==
    IF n > Len(order) THEN index
    ELSE deleteLoop(order, n + 1, Delete(index, order[n]))

\* The popular set chainB builds when the loop over b2j runs in this order.
popularInOrder(seq, order) ==
    IF autoJunk /\ Len(seq) >= AutoJunkMin
    THEN markLoop(order, 1, fullIndex(seq), (Len(seq) \div AutoJunkDiv) + 1, {})
    ELSE {}

InitOrder ==
    /\ old \in Edges \cup LongTexts
    /\ new \in LongTexts \cup PopularTexts
    /\ pc = "start"
    /\ a = <<>>
    /\ b = <<>>
    /\ b2j = <<>>
    /\ bJunk = {}
    /\ bPopular = {}
    /\ matchingBlocks = <<>>
    /\ opCodes = <<>>
    /\ result = <<>>
    /\ IdleCalls /\ IdleCodec /\ IdleStore /\ IdleJSON /\ IdleDP /\ IdleReview

\* Histogram, lines 363-366, with chainB run in any iteration order of b2j
\* (line 218) and of popular (line 223).
NewMatcherInOrder ==
    /\ pc = "start"
    /\ a' = splitLines(old)
    /\ b' = splitLines(new)
    /\ bJunk' = {}
    /\ \E order \in Orders(Range(b')) :
          /\ bPopular' = popularInOrder(b', order)
          /\ \E order2 \in Orders(bPopular') :
                b2j' = deleteLoop(order2, 1, fullIndex(b'))
    /\ pc' = "matcher"
    /\ UNCHANGED <<old, new, matchingBlocks, opCodes, result>>
    /\ UNCHANGED <<callVars, codecVars, storeVars, jsonVars, dpVars, reviewVars>>

NextOrder == NewMatcherInOrder \/ GetOpCodes \/ Emit

SpecOrder == InitOrder /\ [][NextOrder]_vars

\* ---------------------------------------------------------- snapshot codec

\* Strings are sequences of one-character strings, as the texts of the diff.
sep == <<"-", "-", "-", LF>>

keyTitle == <<"t", "i", "t", "l", "e">>
keyTest == <<"t", "e", "s", "t", "_", "n", "a", "m", "e">>
keyFile == <<"f", "i", "l", "e", "_", "n", "a", "m", "e">>
keyVersion == <<"v", "e", "r", "s", "i", "o", "n">>
colonSpace == <<":", " ">>

\* unicode.IsSpace, on the characters of the model.
Space == {" ", LF, "\t", "\r"}

\* Snapshot.Serialize: "---\ntitle: %s\ntest_name: %s\nfile_name: %s\n
\* version: %s\n---\n" followed by the content.
Serialize(s) ==
    sep \o keyTitle \o colonSpace \o s.Title \o <<LF>>
        \o keyTest \o colonSpace \o s.Test \o <<LF>>
        \o keyFile \o colonSpace \o s.FileName \o <<LF>>
        \o keyVersion \o colonSpace \o s.Version \o <<LF>>
        \o sep \o s.Content

\* sub occurs in s at the (1-based) position i.
OccursAt(s, sub, i) ==
    /\ i >= 1
    /\ i + Len(sub) - 1 <= Len(s)
    /\ SubSeq(s, i, i + Len(sub) - 1) = sub

\* strings.Index from position from on: the first position of sub in s at or
\* after from, 0 when there is none.
RECURSIVE IndexFrom(_, _, _)
IndexFrom(s, sub, from) ==
    IF from + Len(sub) - 1 > Len(s) THEN 0
    ELSE IF OccursAt(s, sub, from) THEN from
    ELSE IndexFrom(s, sub, from + 1)

\* strings.SplitN(s, sub, 2): one part when sub does not occur in s.
SplitN2(s, sub) ==
    LET i == IndexFrom(s, sub, 1)
    IN  IF i = 0 THEN <<s>>
        ELSE <<SubSeq(s, 1, i - 1), SubSeq(s, i + Len(sub), Len(s))>>

\* strings.SplitN(s, sub, 3): the last part is the unsplit rest.
SplitN3(s, sub) ==
    LET two == SplitN2(s, sub)
    IN  IF Len(two) < 2 THEN two ELSE <<two[1]>> \o SplitN2(two[2], sub)

\* strings.Split(s, sub): every part, the empty ones included.
RECURSIVE Split(_, _)
Split(s, sub) ==
    LET two == SplitN2(s, sub)
    IN  IF Len(two) < 2 THEN two ELSE <<two[1]>> \o Split(two[2], sub)

RECURSIVE TrimLeft(_)
TrimLeft(s) == IF s # <<>> /\ s[1] \in Space THEN TrimLeft(Tail(s)) ELSE s

RECURSIVE TrimRight(_)
TrimRight(s) ==
    IF s # <<>> /\ s[Len(s)] \in Space THEN TrimRight(SubSeq(s, 1, Len(s) - 1)) ELSE s

\* strings.TrimSpace
TrimSpace(s) == TrimRight(TrimLeft(s))

emptySnapshot ==
    [Title |-> <<>>, Test |-> <<>>, FileName |-> <<>>, Version |-> <<>>, Content |-> <<>>]

\* Deserialize, lines 39-61: one line of the header.
headerLine(snap, line) ==
    LET kv == SplitN2(TrimSpace(line), colonSpace)
    IN  IF TrimSpace(line) = <<>> \/ Len(kv) # 2 THEN snap
        ELSE IF kv[1] = keyTitle THEN [snap EXCEPT !.Title = kv[2]]
        ELSE IF kv[1] = keyTest THEN [snap EXCEPT !.Test = kv[2]]
        ELSE IF kv[1] = keyFile THEN [snap EXCEPT !.FileName = kv[2]]
        ELSE IF kv[1] = keyVersion THEN [snap EXCEPT !.Version = kv[2]]
        ELSE snap

RECURSIVE headerLoop(_, _, _)
headerLoop(lines, n, snap) ==
    IF n > Len(lines) THEN snap
    ELSE headerLoop(lines, n + 1, headerLine(snap, lines[n]))

\* Deserialize: err is "invalid snapshot format" or "" (nil).
Deserialize(text) ==
    LET parts == SplitN3(text, sep)
    IN  IF Len(parts) < 3
        THEN [err |-> "invalid snapshot format", snap |-> emptySnapshot]
        ELSE [err |-> "",
              snap |-> headerLoop(Split(parts[2], <<LF>>), 1,
                                  [emptySnapshot EXCEPT !.Content = parts[3]])]

\* The values of the header fields and of the content that the model draws.
FieldValues == {<<"t">>, <<"A", " ", "b">>, <<"t", "-", "-", "-">>, <<"t", " ">>}

Contents == {<<>>, <<"a">>, <<"a", LF, "b">>, <<"-", "-", "-", LF, "a">>, <<"a", LF>>}

testName == <<"T">>

fileName == <<"f", ".", "g", "o">>

InitCodec ==
    /\ snapshot \in [Title : FieldValues, Test : {testName}, FileName : {fileName},
                      Version : FieldValues, Content : Contents]
    /\ raw = <<>>
    /\ parsed = <<>>
    /\ IdleDiff /\ IdleCalls /\ IdleStore /\ IdleJSON /\ IdleDP /\ IdleReview

DoSerialize ==
    /\ raw = <<>>
    /\ raw' = Serialize(snapshot)
    /\ UNCHANGED <<snapshot, parsed, diffVars, callVars, storeVars, jsonVars, dpVars, reviewVars>>

DoDeserialize ==
    /\ raw # <<>>
    /\ parsed = <<>>
    /\ parsed' = Deserialize(raw)
    /\ UNCHANGED <<snapshot, raw, diffVars, callVars, storeVars, jsonVars, dpVars, reviewVars>>

NextCodec == DoSerialize \/ DoDeserialize

SpecCodec == InitCodec /\ [][NextCodec]_vars

\* ---------------------------------------------------------- snapshot store

dotSnap == <<".", "s", "n", "a", "p">>
dotNew == <<".", "n", "e", "w">>

\* The state argument of the file functions.
stAccepted == <<"a", "c", "c", "e", "p", "t", "e", "d">>
stNew == <<"n", "e", "w">>
stSnap == <<"s", "n", "a", "p">>

msgNew == "new snapshot created - run 'shutter review' to accept"
msgMismatch == "snapshot mismatch - run 'shutter review' to update"
msgNoFile == "no such file or directory"

\* strings.ToLower, on the characters of the model.
ToLower(c) ==
    IF c = "A" THEN "a" ELSE IF c = "B" THEN "b" ELSE IF c = "T" THEN "t" ELSE c

\* SnapshotFileName: strings.ReplaceAll(strings.ToLower(snapTitle), " ", "_")
SnapshotFileName(snapTitle) ==
    [i \in 1..Len(snapTitle) |->
        IF ToLower(snapTitle[i]) = " " THEN "_" ELSE ToLower(snapTitle[i])]

\* getSnapshotFileName with a fault: the state is ignored.
getSnapshotFileNameAnyState(snapTitle, state) ==
    SnapshotFileName(snapTitle) \o dotSnap

getSnapshotFileName(snapTitle, state) ==
    IF state = stAccepted THEN SnapshotFileName(snapTitle) \o dotSnap
    ELSE IF state = stNew THEN SnapshotFileName(snapTitle) \o dotSnap \o dotNew
    ELSE SnapshotFileName(snapTitle) \o <<".">> \o state

\* SaveSnapshot: os.WriteFile of the serialized snapshot.  The directory is
\* there and can be written: a write does not fail.
SaveSnapshot(fs, snap, state) ==
    Put(fs, getSnapshotFileName(snap.Title, state), Serialize(snap))

\* ReadSnapshot: os.ReadFile fails when there is no such file.
ReadSnapshot(fs, snapTitle, state) ==
    IF getSnapshotFileName(snapTitle, state) \in DOMAIN fs
    THEN Deserialize(fs[getSnapshotFileName(snapTitle, state)])
    ELSE [err |-> msgNoFile, snap |-> emptySnapshot]

ReadAccepted(fs, snapTitle) == ReadSnapshot(fs, snapTitle, stSnap)

ReadNew(fs, snapTitle) == ReadSnapshot(fs, snapTitle, stNew)

\* The files and the t.Error messages SnapWithTitle leaves, the accepted
\* snapshot read.  (The diff and the boxes it prints change no state.)
snapAgainst(fs, accepted, snap) ==
    IF accepted.err = ""
    THEN IF accepted.snap.Content = snap.Content
         THEN [files |-> fs, errors |-> <<>>]
         ELSE [files |-> SaveSnapshot(fs, snap, stNew), errors |-> <<msgMismatch>>]
    ELSE [files |-> SaveSnapshot(fs, snap, stNew), errors |-> <<msgNew>>]

SnapWithTitle(fs, title, test, file, version, content) ==
    snapAgainst(fs, ReadAccepted(fs, title),
                [Title |-> title, Test |-> test, FileName |-> file,
                 Version |-> version, Content |-> content])

\* AcceptSnapshot with a fault: the pending file is not removed.
AcceptSnapshotKeepNew(fs, snapTitle) ==
    IF getSnapshotFileName(snapTitle, stNew) \notin DOMAIN fs
    THEN [files |-> fs, err |-> msgNoFile]
    ELSE [files |-> Put(fs, getSnapshotFileName(snapTitle, stAccepted),
                        fs[getSnapshotFileName(snapTitle, stNew)]),
          err |-> ""]

\* AcceptSnapshot: read the pending file, write it as the accepted file,
\* remove the pending file.
AcceptSnapshot(fs, snapTitle) ==
    IF getSnapshotFileName(snapTitle, stNew) \notin DOMAIN fs
    THEN [files |-> fs, err |-> msgNoFile]
    ELSE [files |-> Delete(Put(fs, getSnapshotFileName(snapTitle, stAccepted),
                               fs[getSnapshotFileName(snapTitle, stNew)]),
                           getSnapshotFileName(snapTitle, stNew)),
          err |-> ""]

\* RejectSnapshot: os.Remove of the pending file.
RejectSnapshot(fs, snapTitle) ==
    IF getSnapshotFileName(snapTitle, stNew) \notin DOMAIN fs
    THEN [files |-> fs, err |-> msgNoFile]
    ELSE [files |-> Delete(fs, getSnapshotFileName(snapTitle, stNew)), err |-> ""]

\* The titles, the version and the contents the tests of the model snap.
Titles == {<<"A", " ", "b">>, <<"a", "_", "b">>, <<"t", "-", "-", "-">>}

version == <<"v">>

StoreContents == {<<"a">>, <<"a", LF, "b">>}

InitStore ==
    /\ files = <<>>
    /\ call = [op |-> "none", title |-> <<>>, content |-> <<>>]
    /\ prev = <<>>
    /\ errors = <<>>
    /\ baseline = <<>>
    /\ IdleDiff /\ IdleCalls /\ IdleCodec /\ IdleJSON /\ IdleDP /\ IdleReview

\* A test calls Snap(t, title, version, content).
Snap ==
    \E title \in Titles, content \in StoreContents :
        /\ files' = SnapWithTitle(files, title, testName, fileName, version, content).files
        /\ errors' = SnapWithTitle(files, title, testName, fileName, version, content).errors
        /\ call' = [op |-> "Snap", title |-> title, content |-> content]
        /\ prev' = files
        /\ UNCHANGED <<baseline, diffVars, callVars, codecVars, jsonVars, dpVars, reviewVars>>

\* The review accepts the pending snapshot of a title.
Accept ==
    \E title \in Titles :
        /\ files' = AcceptSnapshot(files, title).files
        /\ errors' = IF AcceptSnapshot(files, title).err = "" THEN <<>>
                     ELSE <<AcceptSnapshot(files, title).err>>
        /\ call' = [op |-> "Accept", title |-> title, content |-> <<>>]
        /\ prev' = files
        /\ baseline' = files'
        /\ UNCHANGED <<diffVars, callVars, codecVars, jsonVars, dpVars, reviewVars>>

\* The review rejects the pending snapshot of a title.
Reject ==
    \E title \in Titles :
        /\ files' = RejectSnapshot(files, title).files
        /\ errors' = IF RejectSnapshot(files, title).err = "" THEN <<>>
                     ELSE <<RejectSnapshot(files, title).err>>
        /\ call' = [op |-> "Reject", title |-> title, content |-> <<>>]
        /\ prev' = files
        /\ UNCHANGED <<baseline, diffVars, callVars, codecVars, jsonVars, dpVars, reviewVars>>

NextStore == Snap \/ Accept \/ Reject

SpecStore == InitStore /\ [][NextStore]_vars

\* ----------------------------------------------------------- TransformJSON

\* The characters of the inputs: a digit, the array brackets, the comma and
\* white space (documents are numbers and arrays; an ignore pattern acts on
\* the keys of objects, which these documents do not have).
JSONChars == {"1", "[", "]", ",", " "}

JSONTexts == UNION {[1..k -> JSONChars] : k \in 0..MaxJSONLen}

\* The white space of encoding/json.
jsonSpace == {" ", LF, "\t", "\r"}

\* The first position at or after i that holds no white space.
RECURSIVE skipSpace(_, _)
skipSpace(s, i) ==
    IF i <= Len(s) /\ s[i] \in jsonSpace THEN skipSpace(s, i + 1) ELSE i

\* The first position at or after i that holds no digit.
RECURSIVE skipDigits(_, _)
skipDigits(s, i) ==
    IF i <= Len(s) /\ s[i] = "1" THEN skipDigits(s, i + 1) ELSE i

number(digits) == [kind |-> "number", digits |-> digits, items |-> <<>>]

array(items) == [kind |-> "array", digits |-> <<>>, items |-> items]

noValue == [ok |-> FALSE, val |-> number(<<>>), next |-> 0]

\* json.Unmarshal, a value at position i: ok, the value, the position after.
RECURSIVE parseValue(_, _)
RECURSIVE parseItems(_, _, _)
parseItems(s, i, items) ==
    LET v == parseValue(s, skipSpace(s, i))
    IN  IF ~v.ok THEN noValue
        ELSE IF skipSpace(s, v.next) > Len(s) THEN noValue
        ELSE IF s[skipSpace(s, v.next)] = "]"
        THEN [ok |-> TRUE, val |-> array(Append(items, v.val)),
              next |-> skipSpace(s, v.next) + 1]
        ELSE IF s[skipSpace(s, v.next)] = ","
        THEN parseItems(s, skipSpace(s, v.next) + 1, Append(items, v.val))
        ELSE noValue

parseValue(s, i) ==
    IF i > Len(s) THEN noValue
    ELSE IF s[i] = "1"
    THEN [ok |-> TRUE, val |-> number(SubSeq(s, i, skipDigits(s, i) - 1)),
          next |-> skipDigits(s, i)]
    ELSE IF s[i] = "["
    THEN IF skipSpace(s, i + 1) <= Len(s) /\ s[skipSpace(s, i + 1)] = "]"
         THEN [ok |-> TRUE, val |-> array(<<>>), next |-> skipSpace(s, i + 1) + 1]
         ELSE parseItems(s, i + 1, <<>>)
    ELSE noValue

\* json.Unmarshal: one value, white space around it, nothing else.
Unmarshal(s) ==
    LET v == parseValue(s, skipSpace(s, 1))
    IN  IF v.ok /\ skipSpace(s, v.next) > Len(s) THEN v ELSE noValue

\* walkAndFilter: an array is filtered item by item, a number is left alone.
RECURSIVE walkAndFilter(_, _)
walkAndFilter(data, ignorePatterns) ==
    IF data.kind = "array"
    THEN array([n \in 1..Len(data.items) |-> walkAndFilter(data.items[n], ignorePatterns)])
    ELSE data

indentOf(depth) == [n \in 1..(2 * depth) |-> " "]

\* json.MarshalIndent(data, "", "  ")
RECURSIVE marshalIndent(_, _)
RECURSIVE marshalItems(_, _, _)
marshalItems(items, n, depth) ==
    IF n > Len(items) THEN <<>>
    ELSE indentOf(depth) \o marshalIndent(items[n], depth)
            \o (IF n < Len(items) THEN <<",">> ELSE <<>>) \o <<LF>>
            \o marshalItems(items, n + 1, depth)

marshalIndent(data, depth) ==
    IF data.kind = "number" THEN data.digits
    ELSE IF data.items = <<>> THEN <<"[", "]">>
    ELSE <<"[", LF>> \o marshalItems(data.items, 1, depth + 1)
            \o indentOf(depth) \o <<"]">>

\* A scrubber that replaces every match (one character) by its replacement.
Scrub(scrubber, content) ==
    [n \in 1..Len(content) |->
        IF content[n] = scrubber.match THEN scrubber.replacement ELSE content[n]]

RECURSIVE ApplyScrubbers(_, _)
ApplyScrubbers(content, scrubbers) ==
    IF scrubbers = <<>> THEN content
    ELSE ApplyScrubbers(Scrub(Head(scrubbers), content), Tail(scrubbers))

errUnmarshal == "failed to unmarshal JSON"

\* TransformJSON: out and err ("" is nil).
TransformJSON(text, cfg) ==
    IF cfg.isNil \/ (Len(cfg.Scrubbers) = 0 /\ Len(cfg.Ignore) = 0)
    THEN [out |-> text, err |-> ""]
    ELSE IF ~Unmarshal(text).ok
    THEN [out |-> <<>>, err |-> errUnmarshal]
    ELSE [out |-> ApplyScrubbers(
                      marshalIndent(IF Len(cfg.Ignore) > 0
                                    THEN walkAndFilter(Unmarshal(text).val, cfg.Ignore)
                                    ELSE Unmarshal(text).val, 0),
                      cfg.Scrubbers),
          err |-> ""]

\* The configurations: nil, and every choice of no or one scrubber and no or
\* one ignore pattern.
Configs ==
    [isNil : {TRUE}, Scrubbers : {<<>>}, Ignore : {<<>>}]
        \cup [isNil : {FALSE},
              Scrubbers : {<<>>, <<[match |-> "1", replacement |-> "x"]>>},
              Ignore : {<<>>, <<[key |-> <<"k">>]>>}]

InitJSON ==
    /\ jsonStr \in JSONTexts
    /\ config \in Configs
    /\ transformed = <<>>
    /\ IdleDiff /\ IdleCalls /\ IdleCodec /\ IdleStore /\ IdleDP /\ IdleReview

DoTransformJSON ==
    /\ transformed = <<>>
    /\ transformed' = TransformJSON(jsonStr, config)
    /\ UNCHANGED <<jsonStr, config, diffVars, callVars, codecVars, storeVars, dpVars, reviewVars>>

NextJSON == DoTransformJSON

SpecJSON == InitJSON /\ [][NextJSON]_vars

\* ------------------------------------------------------ reading a result

Done == pc = "done"

IsShared(e) == e.Kind = DiffShared
IsDeleted(e) == e.Kind = DiffOld
IsAdded(e) == e.Kind = DiffNew

\* The entries of the old side (Shared or Deleted) and of the new side
\* (Shared or Added), in output order.
OldSide == SelectSeq(result, LAMBDA e : IsShared(e) \/ IsDeleted(e))
NewSide == SelectSeq(result, LAMBDA e : IsShared(e) \/ IsAdded(e))

\* The Line contents of entries, joined with a line feed.
RECURSIVE JoinRange(_, _, _)
JoinRange(entries, lo, hi) ==
    IF lo > hi THEN <<>>
    ELSE IF lo = hi THEN entries[lo].Line
    ELSE LET mid == (lo + hi) \div 2
         IN  JoinRange(entries, lo, mid) \o <<LF>> \o JoinRange(entries, mid + 1, hi)

JoinLines(entries) == JoinRange(entries, 1, Len(entries))

NoRepeat(seq) == \A i, j \in DOMAIN seq : seq[i] = seq[j] => i = j

IsPrefix(x, y) == Len(x) <= Len(y) /\ SubSeq(y, 1, Len(x)) = x

\* y is x with a block of Len(y) - Len(x) >= 1 lines inserted at position p.
InsertedAt(x, y, p) ==
    /\ Len(y) > Len(x)
    /\ p \in 0..Len(x)
    /\ SubSeq(y, 1, p) = SubSeq(x, 1, p)
    /\ SubSeq(y, p + 1 + (Len(y) - Len(x)), Len(y)) = SubSeq(x, p + 1, Len(x))

IsInsertion(x, y) == \E p \in 0..Len(x) : InsertedAt(x, y, p)

\* ----------------------------------------------------------------- claims

\* C1: the output accounts for each line exactly once per side: the Shared
\* and Deleted entries, in output order, carry OldNumber 1, 2, ..., Len(a)
\* with Line the old line of that number, and the Shared and Added entries
\* carry NewNumber 1, 2, ..., Len(b) with Line the new line of that number.
C1_EachLineOncePerSide ==
    Done =>
        /\ Len(OldSide) = Len(a)
        /\ \A n \in 1..Len(OldSide) :
              OldSide[n].OldNumber = n /\ OldSide[n].Line = a[n]
        /\ Len(NewSide) = Len(b)
        /\ \A n \in 1..Len(NewSide) :
              NewSide[n].NewNumber = n /\ NewSide[n].Line = b[n]

\* C1 witness: a finished diff that holds Shared, Deleted and Added entries.
C1_Witness ==
    /\ Done
    /\ \E x, y, z \in 1..Len(result) :
          IsShared(result[x]) /\ IsDeleted(result[y]) /\ IsAdded(result[z])

\* C2: every Shared entry pairs two identical lines, and every match block
\* (A, B, Size) of getMatchingBlocks has a[A+k] = b[B+k] for 0 <= k < Size,
\* the lines that came in by extension or by merging included.
C2_SharedLinesIdentical ==
    /\ Done =>
          \A n \in 1..Len(result) :
              IsShared(result[n]) =>
                  /\ result[n].OldNumber \in 1..Len(a)
                  /\ result[n].NewNumber \in 1..Len(b)
                  /\ a[result[n].OldNumber] = result[n].Line
                  /\ b[result[n].NewNumber] = result[n].Line
    /\ pc \in {"opcodes", "done"} =>
          \A n \in 1..Len(matchingBlocks) :
              LET m == matchingBlocks[n]
              IN  \A k \in 0..(m.Size - 1) :
                      /\ m.A + k < Len(a)
                      /\ m.B + k < Len(b)
                      /\ a[m.A + k + 1] = b[m.B + k + 1]

\* C2 witness: a finished diff with a Shared line that is popular, hence not
\* in b2j: it is in its block through boundary extension only.
C2_Witness ==
    /\ Done
    /\ \E n \in 1..Len(result) :
          IsShared(result[n]) /\ result[n].Line \in bPopular

\* C3: joining with a line feed the Line contents of the Shared and Deleted
\* entries yields exactly the string old, and joining those of the Shared and
\* Added entries yields exactly the string new.
C3_JoinReconstructsTexts ==
    Done => JoinLines(OldSide) = old /\ JoinLines(NewSide) = new

\* C4: Histogram(s, s) has only Shared entries, as many as s has lines, and
\* entry number n has OldNumber = NewNumber = n; also for a text of
\* AutoJunkMin lines or more, whose frequent lines are not in the index.
C4_IdenticalTextsAllShared ==
    (Done /\ old = new) =>
        /\ Len(result) = Len(splitLines(old))
        /\ \A n \in 1..Len(result) :
              /\ IsShared(result[n])
              /\ result[n].OldNumber = n
              /\ result[n].NewNumber = n

\* C4 witness: a finished diff of a text with itself, the text long enough for
\* a popular line to be left out of the index.
C4_Witness ==
    /\ Done
    /\ old = new
    /\ Len(b) >= AutoJunkMin
    /\ bPopular # {}
    /\ DOMAIN b2j # {}

\* C5: Deleted and Added entries are never interleaved in a change region:
\* between two Shared entries (or a list end and the nearest Shared entry)
\* every Deleted entry precedes every Added entry.
C5_DeletedBeforeAdded ==
    Done =>
        \A x, y \in 1..Len(result) :
            (x < y /\ IsAdded(result[x]) /\ IsDeleted(result[y])) =>
                \E z \in (x + 1)..(y - 1) : IsShared(result[z])

\* C5 witness: a finished diff with a Replace opcode of two old lines or more
\* and two new lines or more.
C5_Witness ==
    /\ Done
    /\ \E n \in 1..Len(opCodes) :
          /\ opCodes[n].Tag = opReplace
          /\ opCodes[n].I2 - opCodes[n].I1 >= 2
          /\ opCodes[n].J2 - opCodes[n].J1 >= 2

\* ------------------------------------------------------- claims C6 to C10

\* C6: the opcodes of getOpCodes tile both sequences: the first starts at
\* (0, 0), each next one starts where the one before ended, the last ends at
\* (Len(a), Len(b)), none is empty in both sequences, and the list is empty
\* when both sequences are.
C6_OpCodesTile ==
    pc \in {"opcodes", "done"} =>
        /\ (Len(a) = 0 /\ Len(b) = 0) => opCodes = <<>>
        /\ opCodes = <<>> => (Len(a) = 0 /\ Len(b) = 0)
        /\ opCodes # <<>> =>
              /\ opCodes[1].I1 = 0 /\ opCodes[1].J1 = 0
              /\ opCodes[Len(opCodes)].I2 = Len(a)
              /\ opCodes[Len(opCodes)].J2 = Len(b)
        /\ \A n \in 1..(Len(opCodes) - 1) :
              /\ opCodes[n + 1].I1 = opCodes[n].I2
              /\ opCodes[n + 1].J1 = opCodes[n].J2
        /\ \A n \in 1..Len(opCodes) :
              /\ opCodes[n].I1 <= opCodes[n].I2
              /\ opCodes[n].J1 <= opCodes[n].J2
              /\ (opCodes[n].I1 < opCodes[n].I2 \/ opCodes[n].J1 < opCodes[n].J2)

\* C6 witness: an opcode list with an Insert, a Delete and an Equal opcode.
C6_Witness ==
    /\ pc = "opcodes"
    /\ \E x, y, z \in 1..Len(opCodes) :
          /\ opCodes[x].Tag = opInsert
          /\ opCodes[y].Tag = opDelete
          /\ opCodes[z].Tag = opEqual

\* C7: the blocks of getMatchingBlocks are ordered and do not overlap in
\* either sequence (P.A + P.Size <= Q.A and P.B + P.Size <= Q.B for
\* consecutive P, Q); every block but the last has Size > 0 and lies inside
\* both sequences; the last is the sentinel (Len(a), Len(b), 0).
C7_BlocksOrdered ==
    pc \in {"opcodes", "done"} =>
        /\ Len(matchingBlocks) >= 1
        /\ matchingBlocks[Len(matchingBlocks)] =
              [A |-> Len(a), B |-> Len(b), Size |-> 0]
        /\ \A n \in 1..(Len(matchingBlocks) - 1) :
              LET P == matchingBlocks[n]
                  Q == matchingBlocks[n + 1]
              IN  /\ P.A + P.Size <= Q.A
                  /\ P.B + P.Size <= Q.B
                  /\ P.Size > 0
                  /\ P.A >= 0 /\ P.A + P.Size <= Len(a)
                  /\ P.B >= 0 /\ P.B + P.Size <= Len(b)

\* C7 witness: three blocks before the sentinel, found at two levels of the
\* recursion of matchBlocks.
C7_Witness ==
    /\ pc = "opcodes"
    /\ Len(matchingBlocks) >= 4

\* C8: with old the empty string the result is one Added entry per line of
\* new, in order (the empty list when new is empty too); with new the empty
\* string it is one Deleted entry per line of old; no Shared entry in either.
C8_EmptySide ==
    Done =>
        /\ old = <<>> =>
              /\ Len(result) = Len(splitLines(new))
              /\ \A n \in 1..Len(result) :
                    /\ IsAdded(result[n])
                    /\ result[n].NewNumber = n
                    /\ result[n].Line = splitLines(new)[n]
        /\ new = <<>> =>
              /\ Len(result) = Len(splitLines(old))
              /\ \A n \in 1..Len(result) :
                    /\ IsDeleted(result[n])
                    /\ result[n].OldNumber = n
                    /\ result[n].Line = splitLines(old)[n]

\* C8 witness: a finished diff of the empty string against a text of
\* AutoJunkMin lines or more.
C8_Witness ==
    /\ Done
    /\ old = <<>>
    /\ Len(result) >= AutoJunkMin

\* C9: when the lines of old are a prefix of the lines of new, the result is
\* Len(a) Shared entries followed by Added entries for the other new lines,
\* numbered Len(a) + 1 onwards; when the lines of new are a prefix of the
\* lines of old, it is Len(b) Shared entries followed by Deleted entries for
\* the other old lines with their old numbers; also when lines repeat.
C9_PrefixTexts ==
    Done =>
        /\ IsPrefix(a, b) =>
              /\ Len(result) = Len(b)
              /\ \A n \in 1..Len(a) :
                    /\ IsShared(result[n])
                    /\ result[n].OldNumber = n
                    /\ result[n].NewNumber = n
                    /\ result[n].Line = a[n]
              /\ \A n \in (Len(a) + 1)..Len(b) :
                    /\ IsAdded(result[n])
                    /\ result[n].NewNumber = n
                    /\ result[n].Line = b[n]
        /\ IsPrefix(b, a) =>
              /\ Len(result) = Len(a)
              /\ \A n \in 1..Len(b) :
                    /\ IsShared(result[n])
                    /\ result[n].OldNumber = n
                    /\ result[n].NewNumber = n
                    /\ result[n].Line = b[n]
              /\ \A n \in (Len(b) + 1)..Len(a) :
                    /\ IsDeleted(result[n])
                    /\ result[n].OldNumber = n
                    /\ result[n].Line = a[n]

\* C9 witness: old a proper, non-empty prefix of new, and the extra lines of
\* new repeat a line of old.
C9_Witness ==
    /\ Done
    /\ Len(a) >= 2
    /\ Len(b) >= Len(a) + 2
    /\ IsPrefix(a, b)
    /\ \A n \in (Len(a) + 1)..Len(b) : b[n] \in Range(a)

NonShared == SelectSeq(result, LAMBDA e : ~IsShared(e))

\* C10, as stated: when one text is the other with a block of k lines
\* inserted at any position, the diff has exactly k entries that are not
\* Shared: all Added when new holds the extra lines, all Deleted when old does.
C10_InsertedBlockOnly ==
    Done =>
        /\ IsInsertion(a, b) =>
              /\ Len(NonShared) = Len(b) - Len(a)
              /\ \A n \in 1..Len(NonShared) : IsAdded(NonShared[n])
        /\ IsInsertion(b, a) =>
              /\ Len(NonShared) = Len(a) - Len(b)
              /\ \A n \in 1..Len(NonShared) : IsDeleted(NonShared[n])

\* C10, amended: the same, for texts in which no line of the longer text
\* occurs twice.
C10_InsertedBlockOnlyNoRepeat ==
    Done =>
        /\ (IsInsertion(a, b) /\ NoRepeat(b)) =>
              /\ Len(NonShared) = Len(b) - Len(a)
              /\ \A n \in 1..Len(NonShared) : IsAdded(NonShared[n])
        /\ (IsInsertion(b, a) /\ NoRepeat(a)) =>
              /\ Len(NonShared) = Len(a) - Len(b)
              /\ \A n \in 1..Len(NonShared) : IsDeleted(NonShared[n])

\* C10 witness: a line inserted in the middle of a text without repeated
\* lines, with old lines before and after it.
C10_Witness ==
    /\ Done
    /\ NoRepeat(b)
    /\ \E p \in 1..(Len(a) - 1) : InsertedAt(a, b, p)

\* ------------------------------------------------------ claims C11 to C15

\* y is x with the line at position p (1-based) replaced by another line.
SubstitutedAt(x, y, p) ==
    /\ Len(x) = Len(y)
    /\ p \in 1..Len(x)
    /\ x[p] # y[p]
    /\ \A n \in 1..Len(x) : n # p => x[n] = y[n]

\* Shared entries for the lines before p, Deleted(old line p), Added(new
\* line p), Shared entries for the lines after p.
SubstitutionResult(p) ==
    [n \in 1..(Len(a) + 1) |->
        IF n < p
        THEN [Line |-> a[n], Kind |-> DiffShared, OldNumber |-> n, NewNumber |-> n]
        ELSE IF n = p
        THEN [Line |-> a[p], Kind |-> DiffOld, OldNumber |-> p, NewNumber |-> 0]
        ELSE IF n = p + 1
        THEN [Line |-> b[p], Kind |-> DiffNew, OldNumber |-> 0, NewNumber |-> p]
        ELSE [Line |-> a[n - 1], Kind |-> DiffShared,
              OldNumber |-> n - 1, NewNumber |-> n - 1]]

\* C11, as stated: when old and new have the same number of lines and differ
\* at exactly one position p, the result is Shared entries for the lines
\* before p, Deleted(old line p), Added(new line p), Shared entries for the
\* lines after p.
C11_SingleSubstitution ==
    Done => \A p \in 1..Len(a) :
                SubstitutedAt(a, b, p) => result = SubstitutionResult(p)

\* C11, amended: the same, when the old line p occurs nowhere in new, the
\* new line p occurs nowhere in old, and new has fewer than AutoJunkMin
\* lines (no line is popular).
C11_SingleSubstitutionFreshLines ==
    Done => \A p \in 1..Len(a) :
                (/\ SubstitutedAt(a, b, p)
                 /\ a[p] \notin Range(b)
                 /\ b[p] \notin Range(a)
                 /\ Len(b) < AutoJunkMin) => result = SubstitutionResult(p)

\* C11 witness: a finished diff of two texts that differ in one line, a line
\* that occurs in neither text elsewhere, with lines before and after it.
C11_Witness ==
    /\ Done
    /\ Len(b) < AutoJunkMin
    /\ \E p \in 2..(Len(a) - 1) :
          /\ SubstitutedAt(a, b, p)
          /\ a[p] \notin Range(b)
          /\ b[p] \notin Range(a)
          /\ result = SubstitutionResult(p)

\* C12: whenever the accepted content (old) and the captured content (new)
\* are different strings, which is when SnapWithTitle reports a snapshot
\* mismatch, the result holds at least one Deleted or Added entry.
C12_MismatchHasChange ==
    (Done /\ old # new) => NonShared # <<>>

\* The number of line feeds among the first i characters of s.
LFCount(s, i) == Cardinality({n \in 1..i : s[n] = LF})

\* The lines of s have an empty line at the (0-based) index given by the
\* number of line feeds up to the first of every two consecutive line feeds.
EmptyLineAtDoubleLF(s, lines) ==
    \A i \in 1..(Len(s) - 1) :
        (s[i] = LF /\ s[i + 1] = LF) =>
            /\ LFCount(s, i) < Len(lines)
            /\ lines[LFCount(s, i) + 1] = <<>>

\* C15: the line splitter returns the empty sequence for the empty string,
\* and for every two consecutive line feeds of the input the result has an
\* empty line at the index equal to the number of line feeds that precede
\* the second of the two.
C15_SplitterEmptyLines ==
    pc # "start" =>
        /\ old = <<>> => a = <<>>
        /\ new = <<>> => b = <<>>
        /\ EmptyLineAtDoubleLF(old, a)
        /\ EmptyLineAtDoubleLF(new, b)

\* C15 witness: a split text with two consecutive line feeds between two
\* lines that are not empty, the other text empty.
C15_Witness ==
    /\ pc = "matcher"
    /\ new = <<>>
    /\ b = <<>>
    /\ \E i \in 2..(Len(old) - 2) :
          /\ old[i] = LF /\ old[i + 1] = LF
          /\ old[i - 1] # LF /\ old[i + 2] # LF
          /\ a[LFCount(old, i) + 1] = <<>>

FrameInRange(f) ==
    /\ 0 <= f.alo /\ f.alo <= f.ahi /\ f.ahi <= Len(a)
    /\ 0 <= f.blo /\ f.blo <= f.bhi /\ f.bhi <= Len(b)

MatchInFrame(f) ==
    f.at # "enter" =>
        /\ f.match.Size > 0
        /\ f.alo <= f.match.A /\ f.match.A + f.match.Size <= f.ahi
        /\ f.blo <= f.match.B /\ f.match.B + f.match.Size <= f.bhi

\* The range of c lies in the range of p and is shorter in both sequences.
StrictlyInside(c, p) ==
    /\ p.alo <= c.alo /\ c.ahi <= p.ahi
    /\ p.blo <= c.blo /\ c.bhi <= p.bhi
    /\ c.ahi - c.alo < p.ahi - p.alo
    /\ c.bhi - c.blo < p.bhi - p.blo

CallsWellFounded ==
    pc = "blocks" =>
        /\ \A n \in 1..Len(stack) :
              /\ FrameInRange(stack[n])
              /\ MatchInFrame(stack[n])
              /\ n > 1 => StrictlyInside(stack[n], stack[n - 1])
        /\ \A n \in 1..Len(matchedList) :
              /\ matchedList[n].A + matchedList[n].Size <= Len(a)
              /\ matchedList[n].B + matchedList[n].Size <= Len(b)

Min(x, y) == IF x <= y THEN x ELSE y

\* A bound on the steps of an activation entered on a range of da lines of a
\* and db lines of b, the activations it calls included: a match takes one
\* line or more of each sequence, and an activation takes three steps at most.
stepsOfCall(da, db) == 6 * Min(da, db) + 1

stepsOfFrame(f) ==
    IF f.at = "enter" THEN stepsOfCall(f.ahi - f.alo, f.bhi - f.blo)
    ELSE IF f.at = "return" THEN 1
    ELSE IF /\ f.match.A + f.match.Size < f.ahi
            /\ f.match.B + f.match.Size < f.bhi
    THEN 2 + stepsOfCall(f.ahi - (f.match.A + f.match.Size),
                         f.bhi - (f.match.B + f.match.Size))
    ELSE 2

RECURSIVE stepsOfStack(_)
stepsOfStack(n) == IF n = 0 THEN 0 ELSE stepsOfFrame(stack[n]) + stepsOfStack(n - 1)

\* A bound on the steps left before the result is there.
StepsLeft ==
    IF pc = "start" THEN stepsOfCall(Len(old), Len(new)) + 4
    ELSE IF pc = "matcher" THEN stepsOfCall(Len(a), Len(b)) + 3
    ELSE IF pc = "blocks" THEN stepsOfStack(Len(stack)) + 2
    ELSE IF pc = "opcodes" THEN 1
    ELSE 0

\* Until the result is there a step can be taken: the guard of a step of
\* NextCalls holds.
CanStep ==
    \/ pc \in {"start", "matcher", "opcodes"}
    \/ pc = "blocks" /\ stack = <<>>
    \/ pc = "blocks" /\ stack # <<>> /\ top.at \in {"enter", "append", "return"}

\* C13: Histogram is total.  Every activation of matchBlocks has
\* 0 <= alo <= ahi <= Len(a) and 0 <= blo <= bhi <= Len(b), every match lies
\* in the range it was searched in, and every recursive call is on a range
\* strictly shorter than its caller's in both sequences; a step can be taken
\* until the result is there, and every step lowers the bound StepsLeft >= 0
\* on the steps left, so the computation ends.
C13_Total ==
    /\ [](CallsWellFounded /\ StepsLeft >= 0 /\ (Done \/ CanStep))
    /\ [][StepsLeft' < StepsLeft]_vars

\* C13 witness: two recursive calls deep, the innermost a right call on a
\* range that is not empty.
C13_Witness ==
    /\ pc = "blocks"
    /\ Len(stack) >= 3
    /\ top.at = "enter"
    /\ top.alo < top.ahi /\ top.blo < top.bhi
    /\ stack[Len(stack) - 1].at = "return"

\* C14: Histogram is deterministic.  Whatever the order in which chainB
\* visits the keys of b2j and of popular, the line index, the junk set and
\* the popular set are the same functions of b; everything after chainB
\* iterates over slices alone, so the result is a function of (old, new).
C14_Deterministic ==
    /\ pc # "start" =>
          /\ b2j = chainB(b).b2j
          /\ bJunk = chainB(b).bJunk
          /\ bPopular = chainB(b).bPopular
    /\ Done => result = emitLoop(getOpCodes(getMatchingBlocks), 1, <<>>)

\* C14 witness: a finished diff whose index was built from three lines, two
\* of them popular: six orders of the first loop, two of the second.
C14_Witness ==
    /\ Done
    /\ Cardinality(bPopular) >= 2
    /\ DOMAIN b2j # {}

\* ------------------------------------------------------ claims C16 to C20

\* C19: Deserialize(Serialize(s)) succeeds and returns the Title, Test,
\* FileName, Version and Content of s, whatever the field values are.
C19_RoundTrip ==
    parsed # <<>> => parsed.err = "" /\ parsed.snap = snapshot

\* The snapshots a Snap of the model can have saved.
Snapped ==
    [Title : Titles, Test : {testName}, FileName : {fileName},
     Version : {version}, Content : StoreContents]

\* The accepted file of the title is the serialization of a snapshot with
\* this content.
AcceptedWithContent(fs, title, content) ==
    /\ getSnapshotFileName(title, stAccepted) \in DOMAIN fs
    /\ \E s \in Snapped :
          /\ s.Content = content
          /\ Serialize(s) = fs[getSnapshotFileName(title, stAccepted)]

\* The pending file of the last Snap holds the snapshot it captured, and no
\* other file has changed.
PendingWritten ==
    files = Put(prev, getSnapshotFileName(call.title, stNew),
                Serialize([Title |-> call.title, Test |-> testName,
                           FileName |-> fileName, Version |-> version,
                           Content |-> call.content]))

\* C16: a Snap reports an error if and only if no accepted snapshot with
\* identical content exists for the title: with no accepted snapshot it
\* writes the pending snapshot and reports the one error msgNew; with an
\* accepted snapshot of other content it writes the pending snapshot and
\* reports the one error msgMismatch; with an accepted snapshot of identical
\* content it reports nothing and leaves the files as they were.
C16_SnapErrorIffNoIdenticalAccepted ==
    call.op = "Snap" =>
        /\ errors # <<>> <=> ~AcceptedWithContent(prev, call.title, call.content)
        /\ getSnapshotFileName(call.title, stAccepted) \notin DOMAIN prev =>
              PendingWritten /\ errors = <<msgNew>>
        /\ (/\ getSnapshotFileName(call.title, stAccepted) \in DOMAIN prev
            /\ ~AcceptedWithContent(prev, call.title, call.content)) =>
              PendingWritten /\ errors = <<msgMismatch>>
        /\ AcceptedWithContent(prev, call.title, call.content) =>
              files = prev /\ errors = <<>>

\* What ReadAccepted returns for each title.
AcceptedView(fs) == [t \in Titles |-> ReadAccepted(fs, t)]

\* C17: the accepted snapshot of a title changes only through
\* AcceptSnapshot: a Snap or a RejectSnapshot leaves the accepted snapshot
\* of every title as it was, and so does any sequence of them (the accepted
\* snapshots are those the last AcceptSnapshot left).
C17_AcceptedOnlyByAccept ==
    /\ call.op \in {"Snap", "Reject"} =>
          /\ AcceptedView(files) = AcceptedView(prev)
          /\ \A t \in Titles :
                LET name == getSnapshotFileName(t, stAccepted)
                IN  /\ name \in DOMAIN files <=> name \in DOMAIN prev
                    /\ name \in DOMAIN prev => files[name] = prev[name]
    /\ AcceptedView(files) = AcceptedView(baseline)

\* C17 witness: a mismatching Snap has written a pending snapshot next to
\* the accepted snapshot of its title, after an earlier RejectSnapshot.
C17_Witness ==
    /\ call.op = "Snap"
    /\ errors = <<msgMismatch>>
    /\ ReadAccepted(files, call.title).err = ""
    /\ ReadNew(files, call.title).err = ""
    /\ ReadNew(baseline, call.title).err = ""
    /\ ReadNew(files, call.title) # ReadNew(baseline, call.title)

\* C18: after a successful AcceptSnapshot(title) the accepted snapshot of
\* the title has the content the pending snapshot had before the call (the
\* accepted file is the pending file as it was), and reading the pending
\* snapshot fails.
C18_AcceptMovesPending ==
    (call.op = "Accept" /\ errors = <<>>) =>
        /\ ReadNew(prev, call.title).err = ""
        /\ ReadAccepted(files, call.title).err = ""
        /\ ReadAccepted(files, call.title).snap.Content =
              ReadNew(prev, call.title).snap.Content
        /\ files[getSnapshotFileName(call.title, stAccepted)] =
              prev[getSnapshotFileName(call.title, stNew)]
        /\ ReadNew(files, call.title).err # ""

\* C18 witness: a successful AcceptSnapshot that replaced an accepted
\* snapshot of other content.
C18_Witness ==
    /\ call.op = "Accept"
    /\ errors = <<>>
    /\ ReadAccepted(prev, call.title).err = ""
    /\ ReadAccepted(prev, call.title).snap.Content #
          ReadAccepted(files, call.title).snap.Content

\* C20: TransformJSON returns an error whenever its input is not valid JSON,
\* whatever the configuration.
C20_InvalidJSONIsError ==
    (transformed # <<>> /\ ~Unmarshal(jsonStr).ok) => transformed.err # ""

\* ------------------------------------------------ longest common blocks

MaxOf(S) == CHOOSE x \in S : \A y \in S : y <= x

\* The k lines of a after position i and the k lines of b after position j
\* (positions counted from 0) are equal one by one.
CommonRun(i, j, k) == \A d \in 1..k : a[i + d] = b[j + d]

\* The length of the longest block of consecutive lines that occurs in both
\* a and b, 0 when they share no line.
LongestCommonBlock ==
    MaxOf({0} \cup
          {k \in 1..Min(Len(a), Len(b)) :
              \E i \in 0..(Len(a) - k), j \in 0..(Len(b) - k) : CommonRun(i, j, k)})

SharedRun(x, y) == \A n \in x..y : IsShared(result[n])

\* The length of the longest run of consecutive Shared entries of the result.
LongestSharedRun ==
    MaxOf({0} \cup
          {k \in 1..Len(result) :
              \E x \in 1..(Len(result) - k + 1) : SharedRun(x, x + k - 1)})

\* C22: when new has fewer than 200 lines, the longest run of consecutive
\* Shared entries of Histogram(old, new) is exactly as long as the longest
\* block of consecutive lines that occurs in both texts (0 when they share no
\* line).
C22_LongestSharedRun ==
    Done /\ Len(b) < AutoJunkMin => LongestSharedRun = LongestCommonBlock

\* C22 witness: the longest common block has two lines or more, and the
\* result has a Shared entry outside its longest run.
C22_Witness ==
    /\ Done
    /\ Len(b) < AutoJunkMin
    /\ LongestCommonBlock >= 2
    /\ LongestSharedRun = LongestCommonBlock
    /\ Len(SelectSeq(result, IsShared)) > LongestSharedRun
    /\ \E n \in 1..Len(result) : ~IsShared(result[n])

\* A common run of k lines at (i, j) that lies in the range an activation
\* of matchBlocks searches.
RunInFrame(f, i, j, k) ==
    /\ f.alo <= i /\ i + k <= f.ahi
    /\ f.blo <= j /\ j + k <= f.bhi
    /\ CommonRun(i, j, k)

\* m is the first of the longest common runs of the range of f: no run of
\* the range is longer, and a run as long starts later in a, or at the same
\* line of a and later in b.
FirstLongest(f, m) ==
    /\ m.Size > 0 => RunInFrame(f, m.A, m.B, m.Size)
    /\ \A i \in f.alo..(f.ahi - 1), j \in f.blo..(f.bhi - 1) :
          \A k \in 1..Min(f.ahi - i, f.bhi - j) :
              CommonRun(i, j, k) =>
                  \/ k < m.Size
                  \/ k = m.Size /\ (m.A < i \/ (m.A = i /\ m.B <= j))

\* The match of an activation: the one it found, or the one findLongestMatch
\* returns on its range when it has yet to call it.
MatchOf(f) ==
    IF f.at = "enter" THEN findLongestMatch(f.alo, f.ahi, f.blo, f.bhi)
    ELSE f.match

\* C23: when no line is junk or popular, the block findLongestMatch(alo, ahi,
\* blo, bhi) returns has the greatest length of the common contiguous runs
\* within a[alo:ahi] x b[blo:bhi], and among the runs of that length the
\* smallest start in a, then the smallest start in b.
C23_FirstLongestMatch ==
    pc = "blocks" /\ bJunk = {} /\ bPopular = {} =>
        \A n \in 1..Len(stack) : FirstLongest(stack[n], MatchOf(stack[n]))

\* C23 witness: a recursive call on a range that holds two common runs of
\* the greatest length, at different lines of a.
C23_Witness ==
    /\ pc = "blocks" /\ bJunk = {} /\ bPopular = {}
    /\ Len(stack) >= 2
    /\ top.at = "enter"
    /\ LET m == MatchOf(top)
       IN /\ m.Size > 0
          /\ FirstLongest(top, m)
          /\ \E i \in (m.A + 1)..(top.ahi - 1), j \in top.blo..(top.bhi - 1) :
                RunInFrame(top, i, j, m.Size)

\* Match blocks p and then q are contiguous in both sequences.
Contiguous(p, q) == p.A + p.Size = q.A /\ p.B + p.Size = q.B

\* C25: after the merge no two consecutive match blocks (the closing block
\* of size 0 aside) are contiguous in both sequences, so the opcodes
\* alternate strictly between Equal and not Equal.
C25_OpCodesAlternate ==
    pc \in {"opcodes", "done"} =>
        /\ \A n \in 1..(Len(matchingBlocks) - 2) :
              /\ matchingBlocks[n].Size > 0
              /\ ~Contiguous(matchingBlocks[n], matchingBlocks[n + 1])
        /\ \A n \in 1..(Len(opCodes) - 1) :
              (opCodes[n].Tag = opEqual) # (opCodes[n + 1].Tag = opEqual)

\* C25 witness: two match blocks before the closing one, and four opcodes or
\* more, the first of them not Equal.
C25_Witness ==
    /\ pc = "opcodes"
    /\ Len(matchingBlocks) >= 3
    /\ Len(opCodes) >= 4
    /\ opCodes[1].Tag # opEqual

\* C26: when new has fewer than 200 lines, no line of the old range of a
\* Replace opcode equals a line of its new range; in the result, a Deleted
\* and an Added entry with no Shared entry between them never hold the same
\* line.
C26_ReplaceDisjoint ==
    /\ pc \in {"opcodes", "done"} /\ Len(b) < AutoJunkMin =>
          \A n \in 1..Len(opCodes) :
              opCodes[n].Tag = opReplace =>
                  \A i \in (opCodes[n].I1 + 1)..opCodes[n].I2 :
                      \A j \in (opCodes[n].J1 + 1)..opCodes[n].J2 : a[i] # b[j]
    /\ Done /\ Len(b) < AutoJunkMin =>
          \A x \in 1..Len(result) :
              IsAdded(result[x]) =>
                  \A y \in 1..Len(result) :
                      /\ IsDeleted(result[y])
                      /\ result[y].Line = result[x].Line
                      => \E n \in Min(x, y)..(x + y - Min(x, y)) : IsShared(result[n])

\* C26 witness: a Replace opcode of two old and two new lines, and a line of
\* old that occurs in new as well.
C26_Witness ==
    /\ Done
    /\ Len(b) < AutoJunkMin
    /\ \E n \in 1..Len(opCodes) :
          /\ opCodes[n].Tag = opReplace
          /\ opCodes[n].I2 - opCodes[n].I1 >= 2
          /\ opCodes[n].J2 - opCodes[n].J1 >= 2
    /\ Range(a) \cap Range(b) # {}

\* ------------------------------------------- chainB at the popular threshold

\* Texts of n lines "a", "b" and "c", each ended by a line feed: "a" is k of
\* the lines, "b" is k + 1 of them and "c" all the others.
lineAt(i, k) ==
    IF i % 10 = 0 /\ i \div 10 <= k THEN "a"
    ELSE IF i % 10 = 5 /\ i \div 10 <= k THEN "b"
    ELSE "c"

IndexText(n, k) ==
    [x \in 1..(2 * n) |-> IF x % 2 = 0 THEN LF ELSE lineAt((x + 1) \div 2, k)]

IndexTexts ==
    {IndexText(n, k) :
        n \in ((AutoJunkMin - 1)..(AutoJunkMin + 1)) \cup {3 * AutoJunkDiv},
        k \in 2..4}

\* chainB, lines 194-198: indices = append(b2j[elt], i); b2j[elt] = indices.
appendIndex(m, elt, i) ==
    IF elt \in DOMAIN m THEN [m EXCEPT ![elt] = Append(@, i)]
    ELSE [x \in (DOMAIN m) \cup {elt} |-> IF x = elt THEN <<i>> ELSE m[x]]

\* chainB, lines 193-198: the loop over the lines lo..hi of b, in order.
RECURSIVE indexLoop(_, _, _, _)
indexLoop(seq, lo, hi, m) ==
    IF lo > hi THEN m
    ELSE IF lo = hi THEN appendIndex(m, seq[lo], lo - 1)
    ELSE LET mid == (lo + hi) \div 2
             half == indexLoop(seq, lo, mid, m)
         IN  IF half = half THEN indexLoop(seq, mid + 1, hi, half) ELSE half

InitIndex ==
    /\ old \in Edges
    /\ new \in IndexTexts
    /\ pc = "start"
    /\ a = <<>>
    /\ b = <<>>
    /\ b2j = <<>>
    /\ bJunk = {}
    /\ bPopular = {}
    /\ matchingBlocks = <<>>
    /\ opCodes = <<>>
    /\ result = <<>>
    /\ IdleCalls /\ IdleCodec /\ IdleStore /\ IdleJSON /\ IdleDP /\ IdleReview

\* Histogram, lines 363-366, with chainB (190-229) run loop by loop: the loop
\* that fills b2j, the loop that marks the popular lines and the loop that
\* deletes them, the last two in any iteration order of the map.
NewMatcherChainB ==
    /\ pc = "start"
    /\ a' = splitLines(old)
    /\ b' = splitLines(new)
    /\ bJunk' = {}
    /\ LET index == indexLoop(b', 1, Len(b'), <<>>)
           n == Len(b')
       IN  \E order \in Orders(DOMAIN index) :
              /\ bPopular' = IF autoJunk /\ n >= AutoJunkMin
                             THEN markLoop(order, 1, index, (n \div AutoJunkDiv) + 1, {})
                             ELSE {}
              /\ \E order2 \in Orders(bPopular') :
                    b2j' = deleteLoop(order2, 1, index)
    /\ pc' = "matcher"
    /\ UNCHANGED <<old, new, matchingBlocks, opCodes, result>>
    /\ UNCHANGED <<callVars, codecVars, storeVars, jsonVars, dpVars, reviewVars>>

NextIndex == NewMatcherChainB \/ GetOpCodes \/ Emit

SpecIndex == InitIndex /\ [][NextIndex]_vars

\* The number of lines of b equal to s.
CountInB(s) == Cardinality({j \in 1..Len(b) : b[j] = s})

\* The popular lines as the claim gives them.
IsPopular(s) ==
    /\ Len(b) >= AutoJunkMin
    /\ CountInB(s) > (Len(b) \div AutoJunkDiv) + 1

\* C24: after chainB the keys of b2j are exactly the line values of b that
\* are not popular, each mapped to the ascending list of all its (0-based)
\* positions in b; a line is popular exactly when b has 200 lines or more and
\* the line occurs more than len(b)/100 + 1 times.  So with 199 lines or
\* fewer every line is indexed, and with exactly 200 lines a line that occurs
\* 3 times is indexed and one that occurs 4 times is not.
C24_IndexOfNonPopular ==
    pc # "start" =>
        /\ DOMAIN b2j = {s \in Range(b) : ~IsPopular(s)}
        /\ bPopular = {s \in Range(b) : IsPopular(s)}
        /\ \A s \in DOMAIN b2j :
              /\ \A n \in 1..(Len(b2j[s]) - 1) : b2j[s][n] < b2j[s][n + 1]
              /\ Range(b2j[s]) = {j - 1 : j \in {x \in 1..Len(b) : b[x] = s}}
        /\ Len(b) < AutoJunkMin => DOMAIN b2j = Range(b)
        /\ Len(b) = AutoJunkMin =>
              \A s \in Range(b) :
                  /\ CountInB(s) = 3 => s \in DOMAIN b2j
                  /\ CountInB(s) = 4 => s \notin DOMAIN b2j

\* C24 witness: exactly 200 lines, one line value that occurs 3 times and one
\* that occurs 4 times.
C24_Witness ==
    /\ pc = "matcher"
    /\ Len(b) = AutoJunkMin
    /\ \E s, t \in Range(b) : CountInB(s) = 3 /\ CountInB(t) = 4

\* Exactly 199 lines with a line value that occurs 4 times, and exactly 300
\* lines with one that occurs 4 times and one that occurs 5 times.
C24_WitnessBelowAndAbove ==
    /\ pc = "matcher"
    /\ \/ Len(b) = AutoJunkMin - 1 /\ \E s \in Range(b) : CountInB(s) = 4
       \/ /\ Len(b) = 3 * AutoJunkDiv
          /\ \E s, t \in Range(b) : CountInB(s) = 4 /\ CountInB(t) = 5

\* The snapshot Snap captures for a title and a content.
Captured(title, content) ==
    [Title |-> title, Test |-> testName, FileName |-> fileName,
     Version |-> version, Content |-> content]

\* The last call was AcceptSnapshot(title), it succeeded, and the pending
\* file it moved is the one Snap(title, content) writes.
AcceptedPendingOf(title, content) ==
    /\ call.op = "Accept"
    /\ call.title = title
    /\ errors = <<>>
    /\ getSnapshotFileName(title, stNew) \in DOMAIN prev
    /\ prev[getSnapshotFileName(title, stNew)] = Serialize(Captured(title, content))

\* C29: for every title and content, once Snap(title, content) has written a
\* pending snapshot and AcceptSnapshot(title) has succeeded, a following Snap
\* with the same title and content reports no error and writes no pending
\* snapshot.
C29_SnapAfterAcceptPasses ==
    \A title \in Titles, content \in StoreContents :
        AcceptedPendingOf(title, content) =>
            /\ SnapWithTitle(files, title, testName, fileName, version, content).errors = <<>>
            /\ SnapWithTitle(files, title, testName, fileName, version, content).files = files

\* ------------------------------------ Histogram, the edit-distance variant

\* Histogram, lines 486-494: strings.Split on "\n"; a text that is empty has
\* no lines.
splitOnLF(s) ==
    LET lines == Split(s, <<LF>>)
    IN  IF Len(lines) = 1 /\ lines[1] = <<>> THEN <<>> ELSE lines

minThree(x, y, z) ==
    IF x < y THEN (IF x < z THEN x ELSE z)
    ELSE IF y < z THEN y
    ELSE z

\* matrix[i][j], the matrix a sequence of rows that begin at column 0.
at(M, i, j) == M[i + 1][j + 1]

\* computeEditDistance, lines 515-521: row i from column j on; above is row
\* i - 1 and row holds the columns 0..j-1 of row i.
RECURSIVE fillRow(_, _, _, _, _, _)
fillRow(o, n, i, j, above, row) ==
    IF j > Len(n) THEN row
    ELSE fillRow(o, n, i, j + 1, above,
                 Append(row, IF o[i] = n[j] THEN above[j]
                             ELSE 1 + minThree(above[j + 1], row[j], above[j])))

\* computeEditDistance, lines 507-509 and 514-522: the rows from i on, with
\* matrix[i][0] = i.
RECURSIVE fillRows(_, _, _, _)
fillRows(o, n, i, M) ==
    IF i > Len(o) THEN M
    ELSE fillRows(o, n, i + 1, Append(M, fillRow(o, n, i, 1, M[i], <<i>>)))

\* computeEditDistance, lines 510-512: matrix[0][j] = j, then the rows 1..m.
computeEditDistance(o, n) ==
    fillRows(o, n, 1, << [j \in 1..(Len(n) + 1) |-> j - 1] >>)

\* traceback, lines 532-547: the entry one pass of the loop puts in front of
\* the result at the cell (i, j), and the cell it goes to.
tracebackStep(o, n, M, i, j) ==
    IF i > 0 /\ j > 0 /\ o[i] = n[j]
    THEN [entry |-> [Number |-> 0, Line |-> o[i], Kind |-> DiffShared],
          i |-> i - 1, j |-> j - 1]
    ELSE IF j > 0 /\ (i = 0 \/ at(M, i, j - 1) < at(M, i - 1, j))
    THEN [entry |-> [Number |-> 0, Line |-> n[j], Kind |-> DiffNew],
          i |-> i, j |-> j - 1]
    ELSE IF i > 0
    THEN [entry |-> [Number |-> 0, Line |-> o[i], Kind |-> DiffOld],
          i |-> i - 1, j |-> j]
    ELSE [entry |-> [Number |-> 0, Line |-> n[j], Kind |-> DiffNew],
          i |-> i, j |-> j - 1]

InitDP ==
    /\ old \in ShortTexts
    /\ new \in ShortTexts
    /\ pc = "start"
    /\ a = <<>>
    /\ b = <<>>
    /\ b2j = <<>>
    /\ bJunk = {}
    /\ bPopular = {}
    /\ matchingBlocks = <<>>
    /\ opCodes = <<>>
    /\ result = <<>>
    /\ matrix = <<>>
    /\ cell = [i |-> 0, j |-> 0]
    /\ last = [i |-> 0, j |-> 0]
    /\ IdleCalls /\ IdleCodec /\ IdleStore /\ IdleJSON /\ IdleReview

\* Histogram, lines 485-496, and traceback, line 529: the lines, the matrix,
\* and the traceback at the cell (len(old), len(new)).
HistogramDP ==
    /\ pc = "start"
    /\ a' = splitOnLF(old)
    /\ b' = splitOnLF(new)
    /\ matrix' = computeEditDistance(a', b')
    /\ cell' = [i |-> Len(a'), j |-> Len(b')]
    /\ pc' = "traceback"
    /\ UNCHANGED <<old, new, b2j, bJunk, bPopular, matchingBlocks, opCodes, result, last>>
    /\ UNCHANGED <<callVars, codecVars, storeVars, jsonVars, reviewVars>>

\* traceback, lines 531-548: one pass of the loop.
Traceback ==
    /\ pc = "traceback"
    /\ cell.i > 0 \/ cell.j > 0
    /\ result' = <<tracebackStep(a, b, matrix, cell.i, cell.j).entry>> \o result
    /\ cell' = [i |-> tracebackStep(a, b, matrix, cell.i, cell.j).i,
                j |-> tracebackStep(a, b, matrix, cell.i, cell.j).j]
    /\ last' = cell
    /\ UNCHANGED <<old, new, pc, a, b, b2j, bJunk, bPopular, matchingBlocks, opCodes, matrix>>
    /\ UNCHANGED <<callVars, codecVars, storeVars, jsonVars, reviewVars>>

\* traceback, lines 550-552: the loop is over; the entries are numbered.
NumberLines ==
    /\ pc = "traceback"
    /\ cell.i = 0 /\ cell.j = 0
    /\ result' = [idx \in 1..Len(result) |-> [result[idx] EXCEPT !.Number = idx]]
    /\ pc' = "done"
    /\ UNCHANGED <<old, new, a, b, b2j, bJunk, bPopular, matchingBlocks, opCodes>>
    /\ UNCHANGED <<dpVars, callVars, codecVars, storeVars, jsonVars, reviewVars>>

NextDP == HistogramDP \/ Traceback \/ NumberLines

SpecDP == InitDP /\ [][NextDP]_vars

\* The length of a longest common subsequence of the first i lines of o and
\* the first j lines of n.
RECURSIVE LCS(_, _, _, _)
LCS(o, n, i, j) ==
    IF i = 0 \/ j = 0 THEN 0
    ELSE IF o[i] = n[j] THEN 1 + LCS(o, n, i - 1, j - 1)
    ELSE LET x == LCS(o, n, i - 1, j)
             y == LCS(o, n, i, j - 1)
         IN  IF x >= y THEN x ELSE y

\* C27: the edit-distance variant of Histogram returns a minimal number of
\* edits: Deleted plus Added entries are len(old) + len(new) minus twice the
\* length of a longest common subsequence of the lines.
C27_MinimalEdits ==
    Done => Len(NonShared) = Len(a) + Len(b) - 2 * LCS(a, b, Len(a), Len(b))

\* The last step of the traceback was taken at a cell (i, j) with i > 0 and
\* j > 0 where the two lines differ and the two predecessors cost the same.
LastStepAtTie ==
    /\ pc = "traceback"
    /\ result # <<>>
    /\ last.i > 0 /\ last.j > 0
    /\ a[last.i] # b[last.j]
    /\ at(matrix, last.i, last.j - 1) = at(matrix, last.i - 1, last.j)

\* C28: in the edit-distance variant the traceback prefers new on ties: at a
\* cell (i, j), i > 0 and j > 0, where the lines differ and matrix[i][j-1] =
\* matrix[i-1][j], the step emits new[j-1] as an Added entry and decrements j.
C28_TiePrefersNew ==
    LastStepAtTie =>
        /\ IsAdded(result[1])
        /\ result[1].Line = b[last.j]
        /\ cell = [i |-> last.i, j |-> last.j - 1]

\* What the traceback does at a tie: it emits old[i-1] as a Deleted entry
\* and decrements i.
TieTakesOld ==
    LastStepAtTie =>
        /\ IsDeleted(result[1])
        /\ result[1].Line = a[last.i]
        /\ cell = [i |-> last.i - 1, j |-> last.j]

\* ------------------------------------------------- the interactive review

\* The byte of a character of a file name: os.ReadDir returns the entries of
\* a directory sorted by file name.
byteOf(c) ==
    CASE c = "-" -> 45
      [] c = "." -> 46
      [] c = "_" -> 95
      [] c = "a" -> 97
      [] c = "b" -> 98
      [] c = "e" -> 101
      [] c = "n" -> 110
      [] c = "p" -> 112
      [] c = "s" -> 115
      [] c = "t" -> 116
      [] c = "w" -> 119
      [] OTHER -> 0

\* x < y, as Go compares strings.
LessName(x, y) ==
    \E k \in 1..(Min(Len(x), Len(y)) + 1) :
        /\ \A n \in 1..(k - 1) : x[n] = y[n]
        /\ \/ k > Len(x) /\ k <= Len(y)
           \/ k <= Len(x) /\ k <= Len(y) /\ byteOf(x[k]) < byteOf(y[k])

\* strings.HasSuffix and strings.TrimSuffix
HasSuffix(s, suffix) ==
    /\ Len(s) >= Len(suffix)
    /\ SubSeq(s, Len(s) - Len(suffix) + 1, Len(s)) = suffix

TrimSuffix(s, suffix) ==
    IF HasSuffix(s, suffix) THEN SubSeq(s, 1, Len(s) - Len(suffix)) ELSE s

\* The names in S in the order of os.ReadDir.
SortedNames(S) ==
    CHOOSE s \in [1..Cardinality(S) -> S] :
        \A i, j \in 1..Cardinality(S) : i < j => LessName(s[i], s[j])

\* ListNewSnapshots: the entries that end in ".snap.new", the suffix cut.
ListNewSnapshots(fs) ==
    LET entries == SortedNames({f \in DOMAIN fs : HasSuffix(f, dotSnap \o dotNew)})
    IN  [n \in 1..Len(entries) |-> TrimSuffix(entries[n], dotSnap \o dotNew)]

\* The titles the tests of a project snap, and what a directory holds for a
\* title when the review starts: nothing, a pending snapshot, an accepted
\* one, or both.
ReviewTitles == << <<"a">>, <<"A", " ", "b">>, <<"t", "-", "-", "-">> >>

Kinds == {"none", "new", "accepted", "both"}

firstContent == <<"a">>
secondContent == <<"a", LF, "b">>

\* The directory after the test of a title has run once (the snapshot is
\* pending), after its snapshot was accepted as well, and after it has run
\* once more with another content.
storeWith(fs, title, kind) ==
    LET snapped == SnapWithTitle(fs, title, testName, fileName, version, firstContent).files
        accepted == AcceptSnapshot(snapped, title).files
    IN  IF kind = "none" THEN fs
        ELSE IF kind = "new" THEN snapped
        ELSE IF kind = "accepted" THEN accepted
        ELSE SnapWithTitle(accepted, title, testName, fileName, version, secondContent).files

RECURSIVE buildStore(_, _, _)
buildStore(kinds, n, fs) ==
    IF n > Len(ReviewTitles) THEN fs
    ELSE buildStore(kinds, n + 1, storeWith(fs, ReviewTitles[n], kinds[n]))

ReviewStores == {buildStore(kinds, 1, <<>>) : kinds \in [1..Len(ReviewTitles) -> Kinds]}

\* reviewLoop, lines 50-57: the index of the first snapshot from i on whose
\* pending file can be read (the others are passed over with continue),
\* len(snapshots) when there is none.
RECURSIVE nextShown(_, _, _)
nextShown(fs, snaps, i) ==
    IF i >= Len(snaps) THEN Len(snaps)
    ELSE IF ReadNew(fs, snaps[i + 1]).err = "" THEN i
    ELSE nextShown(fs, snaps, i + 1)

\* loadCurrentSnapshot: done when current is past the last snapshot, the
\* error of ReadSnapshot(testName, "new") otherwise.
loadCurrentSnapshot(fs, snaps, cur) ==
    IF cur >= Len(snaps) THEN [done |-> TRUE, err |-> ""]
    ELSE [done |-> FALSE, err |-> ReadNew(fs, snaps[cur + 1]).err]

\* reviewLoop, the loop of AcceptAllChoice with a fault: it starts after the
\* snapshot shown.
RECURSIVE acceptRemainingAfterShown(_, _, _)
acceptRemainingAfterShown(fs, snaps, j) ==
    IF j + 1 >= Len(snaps) THEN fs
    ELSE acceptRemainingAfterShown(AcceptSnapshot(fs, snaps[j + 2]).files, snaps, j + 1)

\* reviewLoop, lines 90-94: accept snapshots[j] for j from i on; an error is
\* printed and the loop goes on.
RECURSIVE acceptRemaining(_, _, _)
acceptRemaining(fs, snaps, j) ==
    IF j >= Len(snaps) THEN fs
    ELSE acceptRemaining(AcceptSnapshot(fs, snaps[j + 1]).files, snaps, j + 1)

\* reviewLoop, lines 98-102: reject snapshots[j] for j from i on.
RECURSIVE rejectRemaining(_, _, _)
rejectRemaining(fs, snaps, j) ==
    IF j >= Len(snaps) THEN fs
    ELSE rejectRemaining(RejectSnapshot(fs, snaps[j + 1]).files, snaps, j + 1)

\* Update, case "A": accept snapshots[i] for i from current on and count
\* each; the first error is kept and ends the loop.
RECURSIVE acceptAllCounted(_, _, _, _)
acceptAllCounted(fs, snaps, i, count) ==
    IF i >= Len(snaps) THEN [files |-> fs, count |-> count, err |-> ""]
    ELSE IF AcceptSnapshot(fs, snaps[i + 1]).err # ""
    THEN [files |-> fs, count |-> count, err |-> AcceptSnapshot(fs, snaps[i + 1]).err]
    ELSE acceptAllCounted(AcceptSnapshot(fs, snaps[i + 1]).files, snaps, i + 1, count + 1)

\* Update, case "R"
RECURSIVE rejectAllCounted(_, _, _, _)
rejectAllCounted(fs, snaps, i, count) ==
    IF i >= Len(snaps) THEN [files |-> fs, count |-> count, err |-> ""]
    ELSE IF RejectSnapshot(fs, snaps[i + 1]).err # ""
    THEN [files |-> fs, count |-> count, err |-> RejectSnapshot(fs, snaps[i + 1]).err]
    ELSE rejectAllCounted(RejectSnapshot(fs, snaps[i + 1]).files, snaps, i + 1, count + 1)

\* The snapshot shown.
testNameShown == snapshots[current + 1]

\* A choice is recorded with the index it was made at.
press(key) == Append(pressed, [key |-> key, at |-> current])

\* Review and reviewLoop up to the first prompt, or initialModel: the
\* directory is one the tests of a project leave; baseline keeps its files
\* as the review found them.
InitReview ==
    /\ files \in ReviewStores
    /\ ui \in {"cli", "tui"}
    /\ snapshots = ListNewSnapshots(files)
    /\ call = [op |-> "none", title |-> <<>>, content |-> <<>>]
    /\ prev = <<>>
    /\ errors = <<>>
    /\ baseline = files
    /\ current = IF ui = "cli" THEN nextShown(files, snapshots, 0) ELSE 0
    /\ err = IF ui = "tui" THEN loadCurrentSnapshot(files, snapshots, 0).err ELSE ""
    /\ done = IF ui = "cli" THEN current >= Len(snapshots)
              ELSE Len(snapshots) = 0 \/ err # ""
    /\ acceptedAll = 0
    /\ rejectedAll = 0
    /\ skippedAll = 0
    /\ pressed = <<>>
    /\ IdleDiff /\ IdleCalls /\ IdleCodec /\ IdleJSON /\ IdleDP

\* reviewLoop, after a choice on one snapshot: the next iteration.
cliNext(fs) ==
    /\ current' = nextShown(fs, snapshots, current + 1)
    /\ done' = (current' >= Len(snapshots))

\* reviewLoop, case Accept.
ChooseAccept ==
    /\ ui = "cli" /\ ~done
    /\ files' = AcceptSnapshot(files, testNameShown).files
    /\ errors' = IF AcceptSnapshot(files, testNameShown).err = "" THEN <<>>
                 ELSE <<AcceptSnapshot(files, testNameShown).err>>
    /\ cliNext(files')
    /\ pressed' = press("a")
    /\ call' = [op |-> "a", title |-> testNameShown, content |-> <<>>]
    /\ prev' = files
    /\ UNCHANGED <<ui, snapshots, err, acceptedAll, rejectedAll, skippedAll, baseline>>
    /\ UNCHANGED <<diffVars, callVars, codecVars, jsonVars, dpVars>>

\* reviewLoop, case Reject.
ChooseReject ==
    /\ ui = "cli" /\ ~done
    /\ files' = RejectSnapshot(files, testNameShown).files
    /\ errors' = IF RejectSnapshot(files, testNameShown).err = "" THEN <<>>
                 ELSE <<RejectSnapshot(files, testNameShown).err>>
    /\ cliNext(files')
    /\ pressed' = press("r")
    /\ call' = [op |-> "r", title |-> testNameShown, content |-> <<>>]
    /\ prev' = files
    /\ UNCHANGED <<ui, snapshots, err, acceptedAll, rejectedAll, skippedAll, baseline>>
    /\ UNCHANGED <<diffVars, callVars, codecVars, jsonVars, dpVars>>

\* reviewLoop, case Skip.
ChooseSkip ==
    /\ ui = "cli" /\ ~done
    /\ cliNext(files)
    /\ pressed' = press("s")
    /\ call' = [op |-> "s", title |-> testNameShown, content |-> <<>>]
    /\ prev' = files
    /\ UNCHANGED <<files, errors, baseline>>
    /\ UNCHANGED <<ui, snapshots, err, acceptedAll, rejectedAll, skippedAll>>
    /\ UNCHANGED <<diffVars, callVars, codecVars, jsonVars, dpVars>>

\* reviewLoop, case AcceptAllChoice: the loop, then return.
ChooseAcceptAll ==
    /\ ui = "cli" /\ ~done
    /\ files' = acceptRemaining(files, snapshots, current)
    /\ done' = TRUE
    /\ pressed' = press("A")
    /\ call' = [op |-> "A", title |-> testNameShown, content |-> <<>>]
    /\ prev' = files
    /\ UNCHANGED <<current, errors, baseline>>
    /\ UNCHANGED <<ui, snapshots, err, acceptedAll, rejectedAll, skippedAll>>
    /\ UNCHANGED <<diffVars, callVars, codecVars, jsonVars, dpVars>>

\* reviewLoop, case RejectAllChoice.
ChooseRejectAll ==
    /\ ui = "cli" /\ ~done
    /\ files' = rejectRemaining(files, snapshots, current)
    /\ done' = TRUE
    /\ pressed' = press("R")
    /\ call' = [op |-> "R", title |-> testNameShown, content |-> <<>>]
    /\ prev' = files
    /\ UNCHANGED <<current, errors, baseline>>
    /\ UNCHANGED <<ui, snapshots, err, acceptedAll, rejectedAll, skippedAll>>
    /\ UNCHANGED <<diffVars, callVars, codecVars, jsonVars, dpVars>>

\* reviewLoop, cases SkipAllChoice and Quit: return.
ChooseSkipAllOrQuit ==
    /\ ui = "cli" /\ ~done
    /\ done' = TRUE
    /\ \E key \in {"S", "q"} :
          /\ pressed' = press(key)
          /\ call' = [op |-> key, title |-> testNameShown, content |-> <<>>]
    /\ prev' = files
    /\ UNCHANGED <<files, current, errors, baseline>>
    /\ UNCHANGED <<ui, snapshots, err, acceptedAll, rejectedAll, skippedAll>>
    /\ UNCHANGED <<diffVars, callVars, codecVars, jsonVars, dpVars>>

\* Update, after a decision on the current snapshot: current++, then
\* loadCurrentSnapshot; its error, if any, replaces m.err.
tuiNext(fs) ==
    /\ current' = current + 1
    /\ done' = loadCurrentSnapshot(fs, snapshots, current + 1).done
    /\ err' = IF loadCurrentSnapshot(fs, snapshots, current + 1).err # ""
              THEN loadCurrentSnapshot(fs, snapshots, current + 1).err
              ELSE err

\* Update, case "a".
KeyAccept ==
    /\ ui = "tui" /\ ~done
    /\ IF AcceptSnapshot(files, testNameShown).err # ""
       THEN /\ err' = AcceptSnapshot(files, testNameShown).err
            /\ errors' = <<err'>>
            /\ UNCHANGED <<files, current, done, acceptedAll>>
       ELSE /\ files' = AcceptSnapshot(files, testNameShown).files
            /\ errors' = <<>>
            /\ acceptedAll' = acceptedAll + 1
            /\ tuiNext(files')
    /\ pressed' = press("a")
    /\ call' = [op |-> "a", title |-> testNameShown, content |-> <<>>]
    /\ prev' = files
    /\ UNCHANGED <<ui, snapshots, rejectedAll, skippedAll, baseline>>
    /\ UNCHANGED <<diffVars, callVars, codecVars, jsonVars, dpVars>>

\* Update, case "r".
KeyReject ==
    /\ ui = "tui" /\ ~done
    /\ IF RejectSnapshot(files, testNameShown).err # ""
       THEN /\ err' = RejectSnapshot(files, testNameShown).err
            /\ errors' = <<err'>>
            /\ UNCHANGED <<files, current, done, rejectedAll>>
       ELSE /\ files' = RejectSnapshot(files, testNameShown).files
            /\ errors' = <<>>
            /\ rejectedAll' = rejectedAll + 1
            /\ tuiNext(files')
    /\ pressed' = press("r")
    /\ call' = [op |-> "r", title |-> testNameShown, content |-> <<>>]
    /\ prev' = files
    /\ UNCHANGED <<ui, snapshots, acceptedAll, skippedAll, baseline>>
    /\ UNCHANGED <<diffVars, callVars, codecVars, jsonVars, dpVars>>

\* Update, case "s".
KeySkip ==
    /\ ui = "tui" /\ ~done
    /\ skippedAll' = skippedAll + 1
    /\ tuiNext(files)
    /\ pressed' = press("s")
    /\ call' = [op |-> "s", title |-> testNameShown, content |-> <<>>]
    /\ prev' = files
    /\ UNCHANGED <<files, errors, baseline>>
    /\ UNCHANGED <<ui, snapshots, acceptedAll, rejectedAll>>
    /\ UNCHANGED <<diffVars, callVars, codecVars, jsonVars, dpVars>>

\* Update, case "A".
KeyAcceptAll ==
    /\ ui = "tui" /\ ~done
    /\ files' = acceptAllCounted(files, snapshots, current, acceptedAll).files
    /\ acceptedAll' = acceptAllCounted(files, snapshots, current, acceptedAll).count
    /\ err' = IF acceptAllCounted(files, snapshots, current, acceptedAll).err # ""
              THEN acceptAllCounted(files, snapshots, current, acceptedAll).err
              ELSE err
    /\ done' = TRUE
    /\ pressed' = press("A")
    /\ call' = [op |-> "A", title |-> testNameShown, content |-> <<>>]
    /\ prev' = files
    /\ UNCHANGED <<current, errors, baseline>>
    /\ UNCHANGED <<ui, snapshots, rejectedAll, skippedAll>>
    /\ UNCHANGED <<diffVars, callVars, codecVars, jsonVars, dpVars>>

\* Update, case "R".
KeyRejectAll ==
    /\ ui = "tui" /\ ~done
    /\ files' = rejectAllCounted(files, snapshots, current, rejectedAll).files
    /\ rejectedAll' = rejectAllCounted(files, snapshots, current, rejectedAll).count
    /\ err' = IF rejectAllCounted(files, snapshots, current, rejectedAll).err # ""
              THEN rejectAllCounted(files, snapshots, current, rejectedAll).err
              ELSE err
    /\ done' = TRUE
    /\ pressed' = press("R")
    /\ call' = [op |-> "R", title |-> testNameShown, content |-> <<>>]
    /\ prev' = files
    /\ UNCHANGED <<current, errors, baseline>>
    /\ UNCHANGED <<ui, snapshots, acceptedAll, skippedAll>>
    /\ UNCHANGED <<diffVars, callVars, codecVars, jsonVars, dpVars>>

\* Update, case "S": m.skippedAll = len(m.snapshots) - m.current.
KeySkipAll ==
    /\ ui = "tui" /\ ~done
    /\ skippedAll' = Len(snapshots) - current
    /\ done' = TRUE
    /\ pressed' = press("S")
    /\ call' = [op |-> "S", title |-> testNameShown, content |-> <<>>]
    /\ prev' = files
    /\ UNCHANGED <<files, current, errors, baseline>>
    /\ UNCHANGED <<ui, snapshots, err, acceptedAll, rejectedAll>>
    /\ UNCHANGED <<diffVars, callVars, codecVars, jsonVars, dpVars>>

\* Update, case "q", "ctrl+c", "esc".
KeyQuit ==
    /\ ui = "tui" /\ ~done
    /\ done' = TRUE
    /\ pressed' = press("q")
    /\ call' = [op |-> "q", title |-> testNameShown, content |-> <<>>]
    /\ prev' = files
    /\ UNCHANGED <<files, current, errors, baseline>>
    /\ UNCHANGED <<ui, snapshots, err, acceptedAll, rejectedAll, skippedAll>>
    /\ UNCHANGED <<diffVars, callVars, codecVars, jsonVars, dpVars>>

NextReview ==
    \/ ChooseAccept
    \/ ChooseReject
    \/ ChooseSkip
    \/ ChooseAcceptAll
    \/ ChooseRejectAll
    \/ ChooseSkipAllOrQuit
    \/ KeyAccept
    \/ KeyReject
    \/ KeySkip
    \/ KeyAcceptAll
    \/ KeyRejectAll
    \/ KeySkipAll
    \/ KeyQuit

SpecReview == InitReview /\ [][NextReview]_vars

\* The choice made on the snapshot of index j: "a", "r" or "s", and "none"
\* when the review never asked about it.
DecisionAt(j) ==
    IF \E n \in 1..Len(pressed) : pressed[n].at = j /\ pressed[n].key \in {"a", "r", "s"}
    THEN pressed[CHOOSE n \in 1..Len(pressed) :
                     pressed[n].at = j /\ pressed[n].key \in {"a", "r", "s"}].key
    ELSE "none"

\* A file of the directory is as the review found it.
Untouched(f) ==
    /\ f \in DOMAIN files <=> f \in DOMAIN baseline
    /\ f \in DOMAIN files => files[f] = baseline[f]

\* What the directory holds for a snapshot after a decision on it: accepted,
\* its pending file has become the accepted file; rejected, the pending file
\* is gone; skipped or never asked about, it is still pending.
Outcome(name, key) ==
    LET pending == getSnapshotFileName(name, stNew)
        accepted == getSnapshotFileName(name, stAccepted)
    IN  IF key = "a"
        THEN /\ pending \in DOMAIN baseline
             /\ pending \notin DOMAIN files
             /\ accepted \in DOMAIN files
             /\ files[accepted] = baseline[pending]
        ELSE IF key = "r"
        THEN /\ pending \notin DOMAIN files
             /\ Untouched(accepted)
        ELSE /\ pending \in DOMAIN files
             /\ Untouched(pending)
             /\ Untouched(accepted)

LastPressed == pressed[Len(pressed)]

\* C21: in the interactive review (the prompt of the command line and the
\* terminal interface alike), Accept All while snapshot i is shown accepts
\* every pending snapshot from i to the end and ends the review; the
\* snapshots before i keep the decision made on them, a skipped one staying
\* pending.
C21_AcceptAllFromShown ==
    pressed # <<>> /\ LastPressed.key = "A" =>
        /\ done
        /\ \A j \in 0..(Len(snapshots) - 1) :
              IF j >= LastPressed.at
              THEN Outcome(snapshots[j + 1], "a")
              ELSE Outcome(snapshots[j + 1], DecisionAt(j))

\* C21 witness: three snapshots, the first skipped, Accept All at the second.
C21_Witness ==
    /\ Len(snapshots) = 3
    /\ Len(pressed) = 2
    /\ pressed[1].key = "s"
    /\ LastPressed.key = "A"
    /\ LastPressed.at = 1
    /\ done

\* C30: in the terminal interface, for every sequence of the keys a, r, s,
\* A, R, S in which no accept or reject fails, when the session ends by the
\* decision on the last snapshot or by A, R or S, acceptedAll + rejectedAll
\* + skippedAll is the number of snapshots.
C30_SummaryCountsAll ==
    /\ ui = "tui"
    /\ done
    /\ err = ""
    /\ pressed # <<>>
    /\ \A n \in 1..Len(pressed) : pressed[n].key # "q"
    => acceptedAll + rejectedAll + skippedAll = Len(snapshots)

====
